---- MODULE Spec2Model ----
(***************************************************************************)
(* A model of the dot15d4 IEEE 802.15.4 frame codec:                       *)
(*   - the Frame Control word readers and writers                          *)
(*     (dot15d4-frame/src/frame_control.rs),                               *)
(*   - the Address / AddressingMode types and the Addressing Fields        *)
(*     resolver, readers and writer (dot15d4/src/frame/addressing.rs).     *)
(* Buffers are sequences of bytes (1-based here, 0-based in the source).   *)
(* A panic (slice out of bounds, unreachable!()) is the value PANIC.       *)
(***************************************************************************)
EXTENDS Integers, Sequences, FiniteSets, TLC

VARIABLES
    fc_buffer,   \* FrameControl.buffer: the bytes under the Frame Control view
    fc_call,     \* the call made through the current FrameControl view
    af_buffer,   \* AddressingFields.buffer
    af_call,     \* the last AddressingFields call, with what it returned
    af_written,  \* the AddressingFieldsRepr last given to write_fields
    fc_values,   \* the value each setter was called with, in a set-once run
    ie_data,     \* the bytes under a nested-IE view, decoder or iterator
    ie_call,     \* the last nested-IE call, with what it returned
    ie_stream,   \* the elements the bytes of ie_data were built from
    it_offset,   \* NestedInformationElementsIterator.offset
    it_terminated, \* NestedInformationElementsIterator.terminated
    it_yielded,  \* the elements the iterator has yielded, in order
    it_kind,     \* which of the three iterators has been constructed
    it_slotframes,      \* SlotframeDescriptorIterator.slotframes
    it_slotframe_count  \* SlotframeDescriptorIterator.slotframe_count

vars == <<fc_buffer, fc_call, af_buffer, af_call, af_written, fc_values,
          ie_data, ie_call, ie_stream, it_offset, it_terminated, it_yielded,
          it_kind, it_slotframes, it_slotframe_count>>
fcVars == <<fc_buffer, fc_call, fc_values>>
afVars == <<af_buffer, af_call, af_written>>
ieVars == <<ie_data, ie_call, ie_stream, it_offset, it_terminated, it_yielded,
           it_kind, it_slotframes, it_slotframe_count>>

(***************************************************************************)
(* u16 arithmetic as the source writes it.                                 *)
(***************************************************************************)
Byte == 0..255

RECURSIVE BitAnd(_, _)
BitAnd(a, b) ==
    IF a = 0 \/ b = 0 THEN 0
    ELSE (a % 2) * (b % 2) + 2 * BitAnd(a \div 2, b \div 2)

RECURSIVE BitOr(_, _)
BitOr(a, b) ==
    IF b = 0 THEN a
    ELSE IF a = 0 THEN b
    ELSE (IF a % 2 = 1 \/ b % 2 = 1 THEN 1 ELSE 0) + 2 * BitOr(a \div 2, b \div 2)

\* !x on a u16
Not16(x) == 65535 - x
\* x << n on a u16
Shl(x, n) == (x * (2 ^ n)) % 65536
\* x >> n
Shr(x, n) == x \div (2 ^ n)
\* x as u8
AsU8(x) == x % 256
\* bool as u16
BoolAsU16(b) == IF b THEN 1 ELSE 0

u16_from_le_bytes(b) == b[1] + 256 * b[2]
u16_to_le_bytes(raw) == <<raw % 256, raw \div 256>>

\* b.copy_from_slice(src) on the first Len(src) bytes of a buffer
CopyFromSlice(buffer, src) ==
    [i \in 1..Len(buffer) |-> IF i <= Len(src) THEN src[i] ELSE buffer[i]]

(***************************************************************************)
(* The enumerations.  A variant without an explicit discriminant takes the *)
(* previous discriminant plus one.                                         *)
(***************************************************************************)
FrameTypes == {"Beacon", "Data", "Ack", "MacCommand", "Multipurpose",
               "FragmentOrFrak", "Extended", "Unknown"}
FrameVersions == {"Ieee802154_2003", "Ieee802154_2006", "Ieee802154_2020", "Unknown"}
AddressingModes == {"Absent", "Short", "Extended", "Unknown"}

FrameType_as_u8(t) ==
    CASE t = "Beacon" -> 0
      [] t = "Data" -> 1
      [] t = "Ack" -> 2
      [] t = "MacCommand" -> 3
      [] t = "Multipurpose" -> 5
      [] t = "FragmentOrFrak" -> 6
      [] t = "Extended" -> 7
      [] t = "Unknown" -> 8

FrameType_from(value) ==
    CASE value = 0 -> "Beacon"
      [] value = 1 -> "Data"
      [] value = 2 -> "Ack"
      [] value = 3 -> "MacCommand"
      [] value = 5 -> "Multipurpose"
      [] value = 6 -> "FragmentOrFrak"
      [] value = 7 -> "Extended"
      [] OTHER -> "Unknown"

FrameVersion_as_u8(v) ==
    CASE v = "Ieee802154_2003" -> 0
      [] v = "Ieee802154_2006" -> 1
      [] v = "Ieee802154_2020" -> 2
      [] v = "Unknown" -> 3

FrameVersion_from(value) ==
    CASE value = 0 -> "Ieee802154_2003"
      [] value = 1 -> "Ieee802154_2006"
      [] value = 2 -> "Ieee802154_2020"
      [] OTHER -> "Unknown"

AddressingMode_as_u8(m) ==
    CASE m = "Absent" -> 0
      [] m = "Short" -> 2
      [] m = "Extended" -> 3
      [] m = "Unknown" -> 4

AddressingMode_from(value) ==
    CASE value = 0 -> "Absent"
      [] value = 2 -> "Short"
      [] value = 3 -> "Extended"
      [] OTHER -> "Unknown"

AddressingMode_size(m) ==
    CASE m = "Absent" -> 0
      [] m = "Short" -> 2
      [] m = "Extended" -> 8
      [] m = "Unknown" -> 0

(***************************************************************************)
(* Frame Control getters: each reads buffer[..2] as a little-endian u16.   *)
(***************************************************************************)
frame_type(buffer) ==
    FrameType_from(AsU8(BitAnd(u16_from_le_bytes(buffer), 7)))

security_enabled(buffer) ==
    BitAnd(Shr(u16_from_le_bytes(buffer), 3), 1) = 1

frame_pending(buffer) ==
    BitAnd(Shr(u16_from_le_bytes(buffer), 4), 1) = 1

ack_request(buffer) ==
    BitAnd(Shr(u16_from_le_bytes(buffer), 5), 1) = 1

pan_id_compression(buffer) ==
    BitAnd(Shr(u16_from_le_bytes(buffer), 6), 1) = 1

sequence_number_suppression(buffer) ==
    BitAnd(Shr(u16_from_le_bytes(buffer), 8), 1) = 1

information_elements_present(buffer) ==
    BitAnd(Shr(u16_from_le_bytes(buffer), 9), 1) = 1

dst_addressing_mode(buffer) ==
    AddressingMode_from(AsU8(BitAnd(Shr(u16_from_le_bytes(buffer), 10), 3)))

src_addressing_mode(buffer) ==
    AddressingMode_from(AsU8(BitAnd(Shr(u16_from_le_bytes(buffer), 14), 3)))

\* a version getter that reads one bit too high
frame_version_shift13(buffer) ==
    FrameVersion_from(AsU8(BitAnd(Shr(u16_from_le_bytes(buffer), 13), 3)))

frame_version(buffer) ==
    FrameVersion_from(AsU8(BitAnd(Shr(u16_from_le_bytes(buffer), 12), 3)))

(***************************************************************************)
(* Frame Control setters: each returns the buffer after the call.          *)
(***************************************************************************)
\* a set_frame_type that forgets to mask the discriminant to three bits
set_frame_type_unmasked(buffer, ft) ==
    CopyFromSlice(buffer, u16_to_le_bytes(
        BitOr(BitAnd(u16_from_le_bytes(buffer), Not16(7)), FrameType_as_u8(ft))))

set_frame_type(buffer, ft) ==
    CopyFromSlice(buffer, u16_to_le_bytes(
        BitOr(BitAnd(u16_from_le_bytes(buffer), Not16(7)),
              BitAnd(FrameType_as_u8(ft), 7))))

set_security_enabled(buffer, flag) ==
    CopyFromSlice(buffer, u16_to_le_bytes(
        BitOr(u16_from_le_bytes(buffer), Shl(BoolAsU16(flag), 3))))

set_frame_pending(buffer, flag) ==
    CopyFromSlice(buffer, u16_to_le_bytes(
        BitOr(u16_from_le_bytes(buffer), Shl(BoolAsU16(flag), 4))))

set_ack_request(buffer, flag) ==
    CopyFromSlice(buffer, u16_to_le_bytes(
        BitOr(u16_from_le_bytes(buffer), Shl(BoolAsU16(flag), 5))))

set_pan_id_compression(buffer, flag) ==
    CopyFromSlice(buffer, u16_to_le_bytes(
        BitOr(u16_from_le_bytes(buffer), Shl(BoolAsU16(flag), 6))))

set_sequence_number_suppression(buffer, flag) ==
    CopyFromSlice(buffer, u16_to_le_bytes(
        BitOr(u16_from_le_bytes(buffer), Shl(BoolAsU16(flag), 8))))

set_information_elements_present(buffer, flag) ==
    CopyFromSlice(buffer, u16_to_le_bytes(
        BitOr(u16_from_le_bytes(buffer), Shl(BoolAsU16(flag), 9))))

set_dst_addressing_mode(buffer, mode) ==
    CopyFromSlice(buffer, u16_to_le_bytes(
        BitOr(BitAnd(u16_from_le_bytes(buffer), Not16(Shl(3, 10))),
              Shl(BitAnd(AddressingMode_as_u8(mode), 3), 10))))

set_src_addressing_mode(buffer, mode) ==
    CopyFromSlice(buffer, u16_to_le_bytes(
        BitOr(BitAnd(u16_from_le_bytes(buffer), Not16(Shl(3, 14))),
              Shl(BitAnd(AddressingMode_as_u8(mode), 3), 14))))

\* a version setter that writes one bit too high
set_frame_version_shift13(buffer, version) ==
    CopyFromSlice(buffer, u16_to_le_bytes(
        BitOr(BitAnd(u16_from_le_bytes(buffer), Not16(Shl(3, 13))),
              Shl(BitAnd(FrameVersion_as_u8(version), 3), 13))))

set_frame_version(buffer, version) ==
    CopyFromSlice(buffer, u16_to_le_bytes(
        BitOr(BitAnd(u16_from_le_bytes(buffer), Not16(Shl(3, 12))),
              Shl(BitAnd(FrameVersion_as_u8(version), 3), 12))))

(***************************************************************************)
(* The Frame Control fields by name, for statements over "every field X".  *)
(***************************************************************************)
FlagFields == {"security_enabled", "frame_pending", "ack_request",
               "pan_id_compression", "sequence_number_suppression",
               "information_elements_present"}
EnumFields == {"frame_type", "dst_addressing_mode", "src_addressing_mode",
               "frame_version"}
Fields == FlagFields \cup EnumFields

GetField(X, buffer) ==
    CASE X = "frame_type" -> frame_type(buffer)
      [] X = "security_enabled" -> security_enabled(buffer)
      [] X = "frame_pending" -> frame_pending(buffer)
      [] X = "ack_request" -> ack_request(buffer)
      [] X = "pan_id_compression" -> pan_id_compression(buffer)
      [] X = "sequence_number_suppression" -> sequence_number_suppression(buffer)
      [] X = "information_elements_present" -> information_elements_present(buffer)
      [] X = "dst_addressing_mode" -> dst_addressing_mode(buffer)
      [] X = "src_addressing_mode" -> src_addressing_mode(buffer)
      [] X = "frame_version" -> frame_version(buffer)

\* bit 7 of the word, which no getter reads
ReservedBit(buffer) == BitAnd(Shr(u16_from_le_bytes(buffer), 7), 1)

NoCall == [op |-> "none"]
SetCall(X, v) == [op |-> "set", field |-> X, arg |-> v]

(***************************************************************************)
(* Frame Control actions.  A view holds nothing but the buffer; fc_call    *)
(* records the setter called through the current view, and a sequence of   *)
(* setter calls is a sequence of views over the same buffer.               *)
(***************************************************************************)
NewUnchecked ==
    /\ fc_call # NoCall
    /\ fc_call' = NoCall
    /\ UNCHANGED <<fc_buffer, fc_values, afVars, ieVars>>

FcSet(X, v, after) ==
    /\ fc_call = NoCall
    /\ fc_buffer' = after
    /\ fc_call' = SetCall(X, v)
    /\ UNCHANGED <<fc_values, afVars, ieVars>>

SetFrameType ==
    \E v \in FrameTypes : FcSet("frame_type", v, set_frame_type(fc_buffer, v))

SetSecurityEnabled ==
    \E v \in BOOLEAN : FcSet("security_enabled", v, set_security_enabled(fc_buffer, v))

SetFramePending ==
    \E v \in BOOLEAN : FcSet("frame_pending", v, set_frame_pending(fc_buffer, v))

SetAckRequest ==
    \E v \in BOOLEAN : FcSet("ack_request", v, set_ack_request(fc_buffer, v))

SetPanIdCompression ==
    \E v \in BOOLEAN : FcSet("pan_id_compression", v, set_pan_id_compression(fc_buffer, v))

SetSequenceNumberSuppression ==
    \E v \in BOOLEAN :
        FcSet("sequence_number_suppression", v,
              set_sequence_number_suppression(fc_buffer, v))

SetInformationElementsPresent ==
    \E v \in BOOLEAN :
        FcSet("information_elements_present", v,
              set_information_elements_present(fc_buffer, v))

SetDstAddressingMode ==
    \E v \in AddressingModes :
        FcSet("dst_addressing_mode", v, set_dst_addressing_mode(fc_buffer, v))

SetSrcAddressingMode ==
    \E v \in AddressingModes :
        FcSet("src_addressing_mode", v, set_src_addressing_mode(fc_buffer, v))

SetFrameVersion ==
    \E v \in FrameVersions : FcSet("frame_version", v, set_frame_version(fc_buffer, v))

AfIdle ==
    /\ af_buffer = <<>>
    /\ af_call = NoCall
    /\ af_written = NoCall

\* no nested-IE view, decoder or iterator is in use
IeIdle ==
    /\ ie_data = <<>>
    /\ ie_call = NoCall
    /\ ie_stream = <<>>
    /\ it_offset = 0
    /\ it_terminated = FALSE
    /\ it_yielded = <<>>
    /\ it_kind = "none"
    /\ it_slotframes = 0
    /\ it_slotframe_count = 0

\* no set-once run is in progress
NoValues == <<>>

\* every 2-byte Frame Control buffer, as received or as left by earlier calls
InitFC ==
    /\ fc_buffer \in Byte \X Byte
    /\ fc_call = NoCall
    /\ fc_values = NoValues
    /\ AfIdle
    /\ IeIdle

NextFC ==
    \/ NewUnchecked
    \/ SetFrameType
    \/ SetSecurityEnabled
    \/ SetFramePending
    \/ SetAckRequest
    \/ SetPanIdCompression
    \/ SetSequenceNumberSuppression
    \/ SetInformationElementsPresent
    \/ SetDstAddressingMode
    \/ SetSrcAddressingMode
    \/ SetFrameVersion

SpecFC == InitFC /\ [][NextFC]_vars

(***************************************************************************)
(* C1: immediately after set_X(v) with a non-Unknown v, the getter of X    *)
(* returns v (so set_X(false) on a flag that reads true makes it read      *)
(* false).                                                                 *)
(***************************************************************************)
C1_SetThenGet ==
    (fc_call.op = "set" /\ (fc_call.field \in EnumFields => fc_call.arg # "Unknown"))
        => GetField(fc_call.field, fc_buffer) = fc_call.arg

(***************************************************************************)
(* C2: a call of set_X, with any argument, leaves what the getters of all  *)
(* other fields return, and the reserved bit 7, as they were.              *)
(***************************************************************************)
C2_OtherFieldsUnchanged ==
    [][fc_call'.op = "set" =>
          /\ \A Y \in Fields \ {fc_call'.field} :
                 GetField(Y, fc_buffer') = GetField(Y, fc_buffer)
          /\ ReservedBit(fc_buffer') = ReservedBit(fc_buffer)]_vars

\* set_frame_type(Unknown), whose discriminant 8 does not fit the field,
\* was called on a word with security_enabled (bit 3) clear
C2_Witness ==
    /\ fc_call.op = "set"
    /\ fc_call.field = "frame_type"
    /\ fc_call.arg = "Unknown"
    /\ ~security_enabled(fc_buffer)
    /\ ReservedBit(fc_buffer) = 1

(***************************************************************************)
(* C3: for every 2-byte buffer and every field X, set_X(get_X()) leaves    *)
(* both bytes as they were.                                                *)
(***************************************************************************)
C3_SetGetIsIdentity ==
    [][(fc_call'.op = "set" /\ fc_call'.arg = GetField(fc_call'.field, fc_buffer))
          => fc_buffer' = fc_buffer]_vars

(***************************************************************************)
(* Option values, panics and slices.                                       *)
(***************************************************************************)
None == [tag |-> "None"]
Some(v) == [tag |-> "Some", val |-> v]
Ok(v) == [tag |-> "Ok", val |-> v]
PANIC == [tag |-> "panic"]

\* whether &buffer[from..][..n] (equally &buffer[from..from + n]) is in bounds
InBounds(buffer, from, n) == from + n <= Len(buffer)
\* the n bytes at 0-based offset from
Slice(buffer, from, n) == SubSeq(buffer, from + 1, from + n)
\* raw.reverse()
Reverse(s) == [i \in 1..Len(s) |-> s[Len(s) + 1 - i]]

(***************************************************************************)
(* Address                                                                 *)
(***************************************************************************)
Address_Absent == [kind |-> "Absent", bytes |-> <<>>]
short_from_bytes(a) == [kind |-> "Short", bytes |-> a]
extended_from_bytes(a) == [kind |-> "Extended", bytes |-> a]
as_bytes(addr) == addr.bytes
Address_len(addr) ==
    CASE addr.kind = "Absent" -> 0
      [] addr.kind = "Short" -> 2
      [] addr.kind = "Extended" -> 8

(***************************************************************************)
(* AddressingFields::address_present_flags: which fields the Frame Control *)
(* word says are present.  Match arms are tried in source order.           *)
(* FrameVersion::Ieee802154 is the 2020 version (discriminant 0b10).       *)
(***************************************************************************)
Flags(dp, dm, sp, sm) ==
    Some([dst_pan_id |-> dp, dst_addr |-> dm, src_pan_id |-> sp, src_addr |-> sm])

\* a legacy arm that tests the compression bit before the Absent rows
legacy_present_flags_compression_first(dst, src, compression) ==
    IF compression THEN Flags(TRUE, dst, FALSE, src)
    ELSE IF dst = "Absent" THEN Flags(FALSE, "Absent", TRUE, src)
    ELSE IF src = "Absent" THEN Flags(TRUE, dst, FALSE, "Absent")
    ELSE Flags(TRUE, dst, TRUE, src)

legacy_present_flags(dst, src, compression) ==
    IF dst = "Absent" THEN Flags(FALSE, "Absent", TRUE, src)
    ELSE IF src = "Absent" THEN Flags(TRUE, dst, FALSE, "Absent")
    ELSE IF compression THEN Flags(TRUE, dst, FALSE, src)
    ELSE IF ~compression THEN Flags(TRUE, dst, TRUE, src)
    ELSE None

\* a 2020 arm in which Extended/Extended follows the Short/Short rows
ieee802154_present_flags_ext_as_short(dst, src, compression) ==
    IF dst = "Absent" /\ src = "Absent" THEN Flags(compression, "Absent", FALSE, "Absent")
    ELSE IF src = "Absent" THEN Flags(~compression, dst, FALSE, "Absent")
    ELSE IF dst = "Absent" THEN Flags(FALSE, "Absent", TRUE, src)
    ELSE IF dst = "Unknown" \/ src = "Unknown" THEN None
    ELSE Flags(TRUE, dst, ~compression, src)

ieee802154_present_flags(dst, src, compression) ==
    IF dst = "Absent" /\ src = "Absent" /\ ~compression
        THEN Flags(FALSE, "Absent", FALSE, "Absent")
    ELSE IF dst = "Absent" /\ src = "Absent" /\ compression
        THEN Flags(TRUE, "Absent", FALSE, "Absent")
    ELSE IF src = "Absent" /\ ~compression /\ dst # "Absent"
        THEN Flags(TRUE, dst, FALSE, "Absent")
    ELSE IF src = "Absent" /\ compression /\ dst # "Absent"
        THEN Flags(FALSE, dst, FALSE, "Absent")
    ELSE IF dst = "Absent" /\ ~compression /\ src # "Absent"
        THEN Flags(FALSE, "Absent", TRUE, src)
    ELSE IF dst = "Absent" /\ compression /\ src # "Absent"
        THEN Flags(FALSE, "Absent", TRUE, src)
    ELSE IF dst = "Extended" /\ src = "Extended" /\ ~compression
        THEN Flags(TRUE, "Extended", FALSE, "Extended")
    ELSE IF dst = "Extended" /\ src = "Extended" /\ compression
        THEN Flags(FALSE, "Extended", FALSE, "Extended")
    ELSE IF dst = "Short" /\ src = "Short" /\ ~compression
        THEN Flags(TRUE, "Short", TRUE, "Short")
    ELSE IF dst = "Short" /\ src = "Extended" /\ ~compression
        THEN Flags(TRUE, "Short", TRUE, "Extended")
    ELSE IF dst = "Extended" /\ src = "Short" /\ ~compression
        THEN Flags(TRUE, "Extended", TRUE, "Short")
    ELSE IF dst = "Short" /\ src = "Extended" /\ compression
        THEN Flags(TRUE, "Short", FALSE, "Extended")
    ELSE IF dst = "Extended" /\ src = "Short" /\ compression
        THEN Flags(TRUE, "Extended", FALSE, "Short")
    ELSE IF dst = "Short" /\ src = "Short" /\ compression
        THEN Flags(TRUE, "Short", FALSE, "Short")
    ELSE None

address_present_flags(fc) ==
    LET dst_addr_mode == dst_addressing_mode(fc)
        src_addr_mode == src_addressing_mode(fc)
        compression == pan_id_compression(fc)
        version == frame_version(fc)
    IN  IF version \in {"Ieee802154_2003", "Ieee802154_2006"}
            THEN legacy_present_flags(dst_addr_mode, src_addr_mode, compression)
        ELSE IF version = "Ieee802154_2020"
            THEN ieee802154_present_flags(dst_addr_mode, src_addr_mode, compression)
        ELSE None

(***************************************************************************)
(* The read accessors.  Each returns None, Some(value) or PANIC, and       *)
(* *_range is the 0-based half-open byte range [from, to) it slices.       *)
(***************************************************************************)
\* an address read that keeps the buffer order
read_address_unreversed(buffer, offset, mode) ==
    CASE mode = "Absent" -> Some(Address_Absent)
      [] mode = "Short" ->
            IF InBounds(buffer, offset, 2)
                THEN Some(short_from_bytes(Slice(buffer, offset, 2)))
                ELSE PANIC
      [] mode = "Extended" ->
            IF InBounds(buffer, offset, 8)
                THEN Some(extended_from_bytes(Slice(buffer, offset, 8)))
                ELSE PANIC
      [] mode = "Unknown" -> None

\* the match on the resolved mode shared by dst_address and src_address
read_address(buffer, offset, mode) ==
    CASE mode = "Absent" -> Some(Address_Absent)
      [] mode = "Short" ->
            IF InBounds(buffer, offset, 2)
                THEN Some(short_from_bytes(Reverse(Slice(buffer, offset, 2))))
                ELSE PANIC
      [] mode = "Extended" ->
            IF InBounds(buffer, offset, 8)
                THEN Some(extended_from_bytes(Reverse(Slice(buffer, offset, 8))))
                ELSE PANIC
      [] mode = "Unknown" -> None

dst_address_offset(f) == IF f.dst_pan_id THEN 2 ELSE 0

dst_address(buffer, fc) ==
    LET f == address_present_flags(fc)
    IN  IF f = None THEN None
        ELSE read_address(buffer, dst_address_offset(f.val), f.val.dst_addr)

src_address_offset(f) ==
    (IF f.dst_pan_id THEN 2 ELSE 0) + AddressingMode_size(f.dst_addr)
        + (IF f.src_pan_id THEN 2 ELSE 0)

src_address(buffer, fc) ==
    LET f == address_present_flags(fc)
    IN  IF f = None THEN None
        ELSE read_address(buffer, src_address_offset(f.val), f.val.src_addr)

dst_pan_id(buffer, fc) ==
    LET f == address_present_flags(fc)
    IN  IF f # None /\ f.val.dst_pan_id
            THEN IF InBounds(buffer, 0, 2)
                     THEN Some(u16_from_le_bytes(Slice(buffer, 0, 2)))
                     ELSE PANIC
            ELSE None

src_pan_id_offset(f) ==
    (IF f.dst_pan_id THEN 2 ELSE 0) + AddressingMode_size(f.dst_addr)

src_pan_id(buffer, fc) ==
    LET f == address_present_flags(fc)
    IN  IF f # None /\ f.val.src_pan_id
            THEN IF InBounds(buffer, src_pan_id_offset(f.val), 2)
                     THEN Some(u16_from_le_bytes(Slice(buffer, src_pan_id_offset(f.val), 2)))
                     ELSE PANIC
            ELSE None

\* the match on a Frame Control addressing mode in len(): unreachable!() on Unknown
len_mode_size(mode) ==
    CASE mode = "Absent" -> Ok(0)
      [] mode = "Short" -> Ok(2)
      [] mode = "Extended" -> Ok(8)
      [] OTHER -> PANIC

len_pan_id_size(id) ==
    IF id = PANIC THEN PANIC ELSE IF id = None THEN Ok(0) ELSE Ok(2)

AddressingFields_len(buffer, fc) ==
    LET parts == << len_pan_id_size(dst_pan_id(buffer, fc)),
                    len_mode_size(dst_addressing_mode(fc)),
                    len_pan_id_size(src_pan_id(buffer, fc)),
                    len_mode_size(src_addressing_mode(fc)) >>
    IN  IF \E i \in 1..4 : parts[i] = PANIC THEN PANIC
        ELSE Ok(parts[1].val + parts[2].val + parts[3].val + parts[4].val)

Repr(dp, sp, da, sa) ==
    [dst_pan_id |-> dp, src_pan_id |-> sp, dst_address |-> da, src_address |-> sa]

AddressingFieldsRepr_parse(buffer, fc) ==
    LET r == Repr(dst_pan_id(buffer, fc), src_pan_id(buffer, fc),
                  dst_address(buffer, fc), src_address(buffer, fc))
    IN  IF PANIC \in {r.dst_pan_id, r.src_pan_id, r.dst_address, r.src_address}
            THEN PANIC
            ELSE Ok(r)

(***************************************************************************)
(* AddressingFields::write_fields: the Some fields of the Repr in the      *)
(* order dst PAN ID, dst address, src PAN ID, src address, behind an       *)
(* offset cursor.  A slice out of bounds panics and leaves what was        *)
(* written before it.                                                      *)
(***************************************************************************)
\* self.buffer.as_mut()[offset..][..n].copy_from_slice(bytes); offset += n
\* a writer whose cursor stays where it was after every field
WriteBytes_no_advance(st, bytes) ==
    IF ~st.ok THEN st
    ELSE IF ~InBounds(st.buffer, st.offset, Len(bytes)) THEN [st EXCEPT !.ok = FALSE]
    ELSE [buffer |-> [i \in 1..Len(st.buffer) |->
                         IF st.offset < i /\ i <= st.offset + Len(bytes)
                             THEN bytes[i - st.offset]
                             ELSE st.buffer[i]],
          offset |-> st.offset,
          ok |-> TRUE]

WriteBytes(st, bytes) ==
    IF ~st.ok THEN st
    ELSE IF ~InBounds(st.buffer, st.offset, Len(bytes)) THEN [st EXCEPT !.ok = FALSE]
    ELSE [buffer |-> [i \in 1..Len(st.buffer) |->
                         IF st.offset < i /\ i <= st.offset + Len(bytes)
                             THEN bytes[i - st.offset]
                             ELSE st.buffer[i]],
          offset |-> st.offset + Len(bytes),
          ok |-> TRUE]

write_fields(buffer, fields) ==
    LET s0 == [buffer |-> buffer, offset |-> 0, ok |-> TRUE]
        s1 == IF fields.dst_pan_id # None
                  THEN WriteBytes(s0, u16_to_le_bytes(fields.dst_pan_id.val)) ELSE s0
        s2 == IF fields.dst_address # None
                  THEN WriteBytes(s1, as_bytes(fields.dst_address.val)) ELSE s1
        s3 == IF fields.src_pan_id # None
                  THEN WriteBytes(s2, u16_to_le_bytes(fields.src_pan_id.val)) ELSE s2
        s4 == IF fields.src_address # None
                  THEN WriteBytes(s3, as_bytes(fields.src_address.val)) ELSE s3
    IN  [buffer |-> s4.buffer, ok |-> s4.ok]

(***************************************************************************)
(* Addressing Fields actions.  af_call records the read made through the   *)
(* current AddressingFields view and what it returned.                     *)
(***************************************************************************)
ReadCall(op, ret) == [op |-> op, ret |-> ret]

AfRead(op, ret) ==
    /\ af_call = NoCall
    /\ af_call' = ReadCall(op, ret)
    /\ UNCHANGED <<fcVars, af_buffer, af_written, ieVars>>

AfNew ==
    /\ af_call # NoCall
    /\ af_call' = NoCall
    /\ UNCHANGED <<fcVars, af_buffer, af_written, ieVars>>

AddressPresentFlags == AfRead("address_present_flags", address_present_flags(fc_buffer))
DstPanId == AfRead("dst_pan_id", dst_pan_id(af_buffer, fc_buffer))
SrcPanId == AfRead("src_pan_id", src_pan_id(af_buffer, fc_buffer))
DstAddress == AfRead("dst_address", dst_address(af_buffer, fc_buffer))
SrcAddress == AfRead("src_address", src_address(af_buffer, fc_buffer))
AfLen == AfRead("len", AddressingFields_len(af_buffer, fc_buffer))
Parse == AfRead("parse", AddressingFieldsRepr_parse(af_buffer, fc_buffer))

\* the fields a caller hands to write_fields
PanIds == {None, Some(4660), Some(43981)}
Addresses == {None, Some(Address_Absent),
              Some(short_from_bytes(<<1, 2>>)),
              Some(short_from_bytes(<<255, 255>>)),
              Some(extended_from_bytes(<<17, 18, 19, 20, 21, 22, 23, 24>>))}
Reprs == {Repr(dp, sp, da, sa) : dp \in PanIds, sp \in PanIds,
                                 da \in Addresses, sa \in Addresses}

WriteFields ==
    \E fields \in Reprs :
        /\ af_written = NoCall
        /\ af_call = NoCall
        /\ af_buffer' = write_fields(af_buffer, fields).buffer
        /\ af_written' = [op |-> "write_fields", fields |-> fields,
                          ok |-> write_fields(af_buffer, fields).ok,
                          before |-> af_buffer]
        /\ UNCHANGED <<fcVars, af_call, ieVars>>

\* the longest Addressing Fields: two PAN IDs and two extended addresses
AfBufLen == 20

\* a buffer of n bytes, every byte different from its neighbours
Fill(n) == [i \in 1..n |-> (160 + 7 * i) % 256]

\* every 2-byte Frame Control word of a received frame, over an addressing
\* buffer long enough for every layout
InitRead ==
    /\ fc_buffer \in Byte \X Byte
    /\ fc_call = NoCall
    /\ af_buffer = Fill(AfBufLen)
    /\ af_call = NoCall
    /\ af_written = NoCall
    /\ fc_values = NoValues
    /\ IeIdle

NextRead ==
    \/ AfNew
    \/ AddressPresentFlags
    \/ DstPanId
    \/ SrcPanId
    \/ DstAddress
    \/ SrcAddress
    \/ AfLen
    \/ Parse

SpecRead == InitRead /\ [][NextRead]_vars

\* the Frame Control words an emitter writes into a zeroed buffer before
\* it hands a Repr to write_fields
EmittedFrameControls ==
    { set_frame_version(
          set_src_addressing_mode(
              set_dst_addressing_mode(
                  set_pan_id_compression(<<0, 0>>, c), d), s), v) :
      c \in BOOLEAN, d \in AddressingModes, s \in AddressingModes, v \in FrameVersions }

AfBufLens == {0, 3, 11, AfBufLen}

InitWrite ==
    /\ fc_buffer \in EmittedFrameControls
    /\ fc_call = NoCall
    /\ af_buffer \in {Fill(n) : n \in AfBufLens}
    /\ af_call = NoCall
    /\ af_written = NoCall
    /\ fc_values = NoValues
    /\ IeIdle

NextWrite ==
    \/ WriteFields
    \/ Parse
    \/ AfNew

SpecWrite == InitWrite /\ [][NextWrite]_vars

(***************************************************************************)
(* Helpers of the statements below.                                        *)
(***************************************************************************)
KnownModes == {"Absent", "Short", "Extended"}
AccessorOps == {"dst_pan_id", "src_pan_id", "dst_address", "src_address"}

\* the width of what an accessor returned: 0 for None
PanIdWidth(opt) == IF opt = None THEN 0 ELSE 2
AddressWidth(opt) == IF opt = None THEN 0 ELSE Len(opt.val.bytes)
\* the bytes of an optional address: none for None
AddressBytes(opt) == IF opt = None THEN <<>> ELSE opt.val.bytes

\* the n bytes of the addressing buffer from 0-based offset o, last byte first
BufferReversed(o, n) == [i \in 1..n |-> af_buffer[o + n + 1 - i]]
\* the little-endian u16 at 0-based offset o of the addressing buffer
BufferU16(o) == af_buffer[o + 1] + 256 * af_buffer[o + 2]

\* the address an accessor is to return for a resolved mode at offset o
ExpectedAddress(mode, o) ==
    CASE mode = "Absent" -> Some([kind |-> "Absent", bytes |-> <<>>])
      [] mode = "Short" -> Some([kind |-> "Short", bytes |-> BufferReversed(o, 2)])
      [] mode = "Extended" -> Some([kind |-> "Extended", bytes |-> BufferReversed(o, 8)])
      [] mode = "Unknown" -> None

\* the Frame Control buffer with the PAN ID compression bit (bit 6) flipped
ToggleCompression(buffer) ==
    IF buffer[1] % 128 >= 64 THEN <<buffer[1] - 64, buffer[2]>>
                             ELSE <<buffer[1] + 64, buffer[2]>>

(***************************************************************************)
(* C4: a Frame Control word whose destination or source addressing mode is *)
(* the reserved code 0b01 (Unknown) resolves to None, for every version    *)
(* and compression bit, and all four read accessors return None for it.    *)
(***************************************************************************)
C4_UnknownModeUnresolved ==
    (dst_addressing_mode(fc_buffer) = "Unknown" \/ src_addressing_mode(fc_buffer) = "Unknown")
        => /\ af_call.op \in AccessorOps \cup {"address_present_flags"}
                => af_call.ret = None
           /\ af_call.op = "parse" => af_call.ret = Ok(Repr(None, None, None, None))

(***************************************************************************)
(* C6: when both addressing modes are Absent, Short or Extended, len() is  *)
(* the sum of the widths of the fields the read accessors report present:  *)
(* 2 per PAN ID returned as Some, the byte length of each address returned *)
(* (0 for None).                                                           *)
(***************************************************************************)
C6_LenIsSumOfPresentWidths ==
    (/\ af_call.op = "len"
     /\ dst_addressing_mode(fc_buffer) \in KnownModes
     /\ src_addressing_mode(fc_buffer) \in KnownModes)
        => af_call.ret = Ok(PanIdWidth(dst_pan_id(af_buffer, fc_buffer))
                            + AddressWidth(dst_address(af_buffer, fc_buffer))
                            + PanIdWidth(src_pan_id(af_buffer, fc_buffer))
                            + AddressWidth(src_address(af_buffer, fc_buffer)))

(***************************************************************************)
(* C7: over an addressing buffer of at least 20 bytes the resolver, the    *)
(* four read accessors, parse and len() return a value (possibly None) for *)
(* every Frame Control word: no call ends in a panic.                      *)
(***************************************************************************)
C7_ReadsNeverPanic ==
    (af_call # NoCall /\ Len(af_buffer) >= 20) => af_call.ret # PANIC

(***************************************************************************)
(* C8: for versions 2003 and 2006 the resolver returns, rows tried in this *)
(* order: dst Absent => (no dst PAN ID, Absent, src PAN ID, src); else src *)
(* Absent => (dst PAN ID, dst, no src PAN ID, Absent); else compression    *)
(* set => (dst PAN ID, dst, no src PAN ID, src); else (dst PAN ID, dst,    *)
(* src PAN ID, src).  The compression bit changes the result only when     *)
(* both modes are non-Absent.                                              *)
(***************************************************************************)
C8_LegacyTable ==
    LET dst == dst_addressing_mode(fc_buffer)
        src == src_addressing_mode(fc_buffer)
        compressed == pan_id_compression(fc_buffer)
    IN  (/\ af_call.op = "address_present_flags"
         /\ frame_version(fc_buffer) \in {"Ieee802154_2003", "Ieee802154_2006"})
            => /\ dst = "Absent" => af_call.ret = Flags(FALSE, "Absent", TRUE, src)
               /\ (dst # "Absent" /\ src = "Absent")
                      => af_call.ret = Flags(TRUE, dst, FALSE, "Absent")
               /\ (dst # "Absent" /\ src # "Absent" /\ compressed)
                      => af_call.ret = Flags(TRUE, dst, FALSE, src)
               /\ (dst # "Absent" /\ src # "Absent" /\ ~compressed)
                      => af_call.ret = Flags(TRUE, dst, TRUE, src)
               /\ (dst = "Absent" \/ src = "Absent")
                      => af_call.ret = address_present_flags(ToggleCompression(fc_buffer))

\* the resolver ran on a legacy word with both modes Absent and the
\* compression bit set
C8_Witness ==
    /\ af_call.op = "address_present_flags"
    /\ frame_version(fc_buffer) = "Ieee802154_2006"
    /\ dst_addressing_mode(fc_buffer) = "Absent"
    /\ src_addressing_mode(fc_buffer) = "Absent"
    /\ pan_id_compression(fc_buffer)
    /\ af_call.ret = Flags(FALSE, "Absent", TRUE, "Absent")

(***************************************************************************)
(* C9: for version 2020 and both modes in {Absent, Short, Extended} all 18 *)
(* (dst, src, compression) combinations resolve, with the modes as given:  *)
(* both Absent => dst PAN ID iff compression set, no src PAN ID; dst       *)
(* present, src Absent => dst PAN ID iff compression clear, no src PAN ID; *)
(* dst Absent, src present => src PAN ID and no dst PAN ID; Extended/      *)
(* Extended => dst PAN ID iff compression clear, no src PAN ID; the other  *)
(* pairs => dst PAN ID always, src PAN ID iff compression clear.           *)
(***************************************************************************)
C9_Ieee802154Table ==
    LET dst == dst_addressing_mode(fc_buffer)
        src == src_addressing_mode(fc_buffer)
        compressed == pan_id_compression(fc_buffer)
        ret == af_call.ret
    IN  (/\ af_call.op = "address_present_flags"
         /\ frame_version(fc_buffer) = "Ieee802154_2020"
         /\ dst \in KnownModes
         /\ src \in KnownModes)
            => /\ ret # None
               /\ ret.val.dst_addr = dst
               /\ ret.val.src_addr = src
               /\ (dst = "Absent" /\ src = "Absent")
                      => (ret.val.dst_pan_id <=> compressed) /\ ~ret.val.src_pan_id
               /\ (dst # "Absent" /\ src = "Absent")
                      => (ret.val.dst_pan_id <=> ~compressed) /\ ~ret.val.src_pan_id
               /\ (dst = "Absent" /\ src # "Absent")
                      => ~ret.val.dst_pan_id /\ ret.val.src_pan_id
               /\ (dst = "Extended" /\ src = "Extended")
                      => (ret.val.dst_pan_id <=> ~compressed) /\ ~ret.val.src_pan_id
               /\ (<<dst, src>> \in {<<"Short", "Short">>, <<"Short", "Extended">>,
                                     <<"Extended", "Short">>})
                      => ret.val.dst_pan_id /\ (ret.val.src_pan_id <=> ~compressed)

\* the resolver ran on a compressed 2020 Extended/Extended word
C9_Witness ==
    /\ af_call.op = "address_present_flags"
    /\ frame_version(fc_buffer) = "Ieee802154_2020"
    /\ dst_addressing_mode(fc_buffer) = "Extended"
    /\ src_addressing_mode(fc_buffer) = "Extended"
    /\ pan_id_compression(fc_buffer)
    /\ af_call.ret = Flags(FALSE, "Extended", FALSE, "Extended")

(***************************************************************************)
(* C10: for a word that resolves to (dp, dm, sp, sm) the accessors read    *)
(* consecutive ranges from offset 0 in the order dst PAN ID (2 bytes if    *)
(* dp), dst address (size(dm) bytes), src PAN ID (2 bytes if sp), src      *)
(* address (size(sm) bytes); PAN IDs are little-endian and an address is   *)
(* returned with its bytes in reverse of buffer order.                     *)
(***************************************************************************)
C10_Layout ==
    LET f == address_present_flags(fc_buffer)
        o1 == IF f.val.dst_pan_id THEN 2 ELSE 0
        o2 == o1 + AddressingMode_size(f.val.dst_addr)
        o3 == o2 + (IF f.val.src_pan_id THEN 2 ELSE 0)
    IN  (f # None /\ af_call.op \in AccessorOps)
            => /\ af_call.op = "dst_pan_id"
                    => af_call.ret = IF f.val.dst_pan_id THEN Some(BufferU16(0)) ELSE None
               /\ af_call.op = "dst_address"
                    => af_call.ret = ExpectedAddress(f.val.dst_addr, o1)
               /\ af_call.op = "src_pan_id"
                    => af_call.ret = IF f.val.src_pan_id THEN Some(BufferU16(o2)) ELSE None
               /\ af_call.op = "src_address"
                    => af_call.ret = ExpectedAddress(f.val.src_addr, o3)

\* src_address read the last of four present fields: a short address
\* behind two PAN IDs and an extended destination address
C10_Witness ==
    /\ af_call.op = "src_address"
    /\ address_present_flags(fc_buffer) = Flags(TRUE, "Extended", TRUE, "Short")
    /\ af_call.ret = Some([kind |-> "Short", bytes |-> <<af_buffer[14], af_buffer[13]>>])
    /\ af_buffer[14] # af_buffer[13]

(***************************************************************************)
(* C5: for a Frame Control word that resolves and a Repr consistent with   *)
(* it, write_fields(repr) followed by AddressingFieldsRepr::parse over the *)
(* same buffer returns the PAN IDs and the address bytes that were         *)
(* written.                                                                *)
(***************************************************************************)
ConsistentRepr(fields, fc) ==
    LET f == address_present_flags(fc)
    IN  /\ f # None
        /\ (fields.dst_pan_id # None) <=> f.val.dst_pan_id
        /\ (fields.src_pan_id # None) <=> f.val.src_pan_id
        /\ AddressWidth(fields.dst_address) = AddressingMode_size(f.val.dst_addr)
        /\ AddressWidth(fields.src_address) = AddressingMode_size(f.val.src_addr)

C5_WriteThenParse ==
    (/\ af_written # NoCall
     /\ af_written.ok
     /\ af_call.op = "parse"
     /\ ConsistentRepr(af_written.fields, fc_buffer))
        => /\ af_call.ret # PANIC
           /\ af_call.ret.val.dst_pan_id = af_written.fields.dst_pan_id
           /\ af_call.ret.val.src_pan_id = af_written.fields.src_pan_id
           /\ AddressBytes(af_call.ret.val.dst_address)
                  = AddressBytes(af_written.fields.dst_address)
           /\ AddressBytes(af_call.ret.val.src_address)
                  = AddressBytes(af_written.fields.src_address)


\* ---- write_fields: what is written, where, and when it fails ----

\* the two bytes a PAN ID occupies on the wire, low byte first; none for None
PanIdBytes(opt) ==
    IF opt = None THEN <<>> ELSE <<opt.val % 256, opt.val \div 256>>

\* the fields of a representation laid out in wire order
ReprBytes(fields) ==
    PanIdBytes(fields.dst_pan_id) \o AddressBytes(fields.dst_address)
        \o PanIdBytes(fields.src_pan_id) \o AddressBytes(fields.src_address)

\* the summed width of the Some fields of a representation
ReprWidth(fields) ==
    PanIdWidth(fields.dst_pan_id) + AddressWidth(fields.dst_address)
        + PanIdWidth(fields.src_pan_id) + AddressWidth(fields.src_address)

\* C11: write_fields(repr) fails exactly when the summed width n of the Some
\* fields of repr exceeds the buffer length, whatever the Frame Control word
\* says; when it succeeds the first n bytes of the buffer are dst PAN ID,
\* dst address, src PAN ID, src address in that order from offset 0, and in
\* every case the buffer keeps its length and every byte at index >= n.
C11_WriteFieldsEffect ==
    af_written # NoCall =>
        LET n == ReprWidth(af_written.fields)
        IN  /\ af_written.ok <=> n <= Len(af_written.before)
            /\ Len(af_buffer) = Len(af_written.before)
            /\ \A i \in 1..Len(af_buffer) :
                   i > n => af_buffer[i] = af_written.before[i]
            /\ af_written.ok =>
                   /\ Len(ReprBytes(af_written.fields)) = n
                   /\ SubSeq(af_buffer, 1, n) = ReprBytes(af_written.fields)

\* a write of all four fields (2 + 8 + 2 + 2 bytes) that succeeded although
\* the Frame Control word asks for other fields, over a buffer longer than n
C11_Witness ==
    /\ af_written # NoCall
    /\ af_written.ok
    /\ ReprWidth(af_written.fields) = 14
    /\ Len(af_buffer) > 14
    /\ ~ConsistentRepr(af_written.fields, fc_buffer)
    /\ af_written.fields.dst_pan_id # af_written.fields.src_pan_id
    /\ AddressWidth(af_written.fields.dst_address) = 8

(***************************************************************************)
(* Building a Frame Control view over a buffer of any length, and reading  *)
(* through a view that new accepted.                                       *)
(***************************************************************************)
Err == [tag |-> "Err"]

\* a length check that accepts a single byte
check_len_one_byte(buffer) == Len(buffer) >= 1

check_len(buffer) == Len(buffer) >= 2

FrameControl_new_unchecked(buffer) == [buffer |-> buffer]

FrameControl_new(buffer) ==
    LET fc == FrameControl_new_unchecked(buffer)
    IN  IF ~check_len(fc.buffer) THEN Err ELSE Ok(fc)

\* a getter called through a view: each one starts with &buffer[..2]
Getter(X, buffer) ==
    IF ~InBounds(buffer, 0, 2) THEN PANIC ELSE Ok(GetField(X, buffer))

New ==
    /\ fc_call = NoCall
    /\ fc_call' = [op |-> "new", ret |-> FrameControl_new(fc_buffer)]
    /\ UNCHANGED <<fc_buffer, fc_values, afVars, ieVars>>

NewUncheckedView ==
    /\ fc_call = NoCall
    /\ fc_call' = [op |-> "new_unchecked",
                   ret |-> FrameControl_new_unchecked(fc_buffer)]
    /\ UNCHANGED <<fc_buffer, fc_values, afVars, ieVars>>

Get ==
    \E X \in Fields :
        /\ fc_call.op = "new"
        /\ fc_call.ret # Err
        /\ fc_call' = [op |-> "get", field |-> X,
                       ret |-> Getter(X, fc_call.ret.val.buffer)]
        /\ UNCHANGED <<fc_buffer, fc_values, afVars, ieVars>>

MaxFcBufLen == 4
SampleBytes == {41, 170}

\* the empty buffer, 1-byte buffers, every 2-byte buffer, and longer ones
ViewBuffers ==
    {<<>>} \cup {<<b>> : b \in SampleBytes} \cup (Byte \X Byte)
        \cup {<<a, b>> \o Fill(n - 2) :
                  a \in SampleBytes, b \in SampleBytes, n \in 3..MaxFcBufLen}

InitView ==
    /\ fc_buffer \in ViewBuffers
    /\ fc_call = NoCall
    /\ fc_values = NoValues
    /\ AfIdle
    /\ IeIdle

NextView == New \/ NewUncheckedView \/ Get

SpecView == InitView /\ [][NextView]_vars

\* C12: FrameControl::new returns an error exactly for buffers shorter than
\* 2 bytes and otherwise a view over that buffer whose getters return what
\* the first two bytes of the buffer encode; new_unchecked returns a view
\* over every buffer, those of length 0 and 1 included.
C12_NewChecksLength ==
    /\ fc_call.op = "new" =>
           /\ fc_call.ret = Err <=> Len(fc_buffer) < 2
           /\ fc_call.ret # Err => fc_call.ret = Ok([buffer |-> fc_buffer])
    /\ fc_call.op = "new_unchecked" => fc_call.ret = [buffer |-> fc_buffer]
    /\ fc_call.op = "get" =>
           /\ Len(fc_buffer) >= 2
           /\ fc_call.ret
                  = Ok(GetField(fc_call.field, <<fc_buffer[1], fc_buffer[2]>>))

\* new has refused a 1-byte buffer
C12_Witness ==
    /\ fc_call.op = "new"
    /\ fc_call.ret = Err
    /\ Len(fc_buffer) = 1

\* ---- raw codes to variants, and the bit range each getter reads ----

\* bits lo .. lo + width - 1 of the little-endian word of the first two bytes
WordBits(buffer, lo, width) ==
    ((buffer[1] + 256 * buffer[2]) \div (2 ^ lo)) % (2 ^ width)

ExpectedField(X, buffer) ==
    CASE X = "frame_type" -> FrameType_from(WordBits(buffer, 0, 3))
      [] X = "security_enabled" -> WordBits(buffer, 3, 1) = 1
      [] X = "frame_pending" -> WordBits(buffer, 4, 1) = 1
      [] X = "ack_request" -> WordBits(buffer, 5, 1) = 1
      [] X = "pan_id_compression" -> WordBits(buffer, 6, 1) = 1
      [] X = "sequence_number_suppression" -> WordBits(buffer, 8, 1) = 1
      [] X = "information_elements_present" -> WordBits(buffer, 9, 1) = 1
      [] X = "dst_addressing_mode" -> AddressingMode_from(WordBits(buffer, 10, 2))
      [] X = "frame_version" -> FrameVersion_from(WordBits(buffer, 12, 2))
      [] X = "src_addressing_mode" -> AddressingMode_from(WordBits(buffer, 14, 2))

\* C14: every 3-bit code is one FrameType and only 0b100 is Unknown; every
\* 2-bit code is one FrameVersion and only 0b11 is Unknown; every 2-bit code
\* is one AddressingMode and only 0b01 is Unknown; size() is 0, 2, 8, 0 for
\* Absent, Short, Extended, Unknown; and each getter returns the conversion
\* of its own bit range of the little-endian word.
C14_ConversionsAndBitRanges ==
    /\ \A c \in 0..7 :
           /\ FrameType_from(c) \in FrameTypes
           /\ FrameType_from(c) = "Unknown" <=> c = 4
    /\ \A c \in 0..3 :
           /\ FrameVersion_from(c) \in FrameVersions
           /\ FrameVersion_from(c) = "Unknown" <=> c = 3
           /\ AddressingMode_from(c) \in AddressingModes
           /\ AddressingMode_from(c) = "Unknown" <=> c = 1
    /\ AddressingMode_size("Absent") = 0
    /\ AddressingMode_size("Short") = 2
    /\ AddressingMode_size("Extended") = 8
    /\ AddressingMode_size("Unknown") = 0
    /\ fc_call.op = "get" =>
           fc_call.ret = Ok(ExpectedField(fc_call.field, fc_buffer))

\* the version getter has returned Unknown for a word whose bits 12..13 are
\* both set while the neighbouring bits 11 and 14 are clear
C14_Witness ==
    /\ fc_call.op = "get"
    /\ fc_call.field = "frame_version"
    /\ fc_call.ret = Ok("Unknown")
    /\ WordBits(fc_buffer, 11, 1) = 0
    /\ WordBits(fc_buffer, 14, 1) = 0

(***************************************************************************)
(* Writing a whole Frame Control word: a zeroed 2-byte buffer, then each   *)
(* of the ten setters called once, in any order.  fc_values keeps the      *)
(* argument of every setter called so far.                                 *)
(***************************************************************************)
SetField(X, buffer, v) ==
    CASE X = "frame_type" -> set_frame_type(buffer, v)
      [] X = "security_enabled" -> set_security_enabled(buffer, v)
      [] X = "frame_pending" -> set_frame_pending(buffer, v)
      [] X = "ack_request" -> set_ack_request(buffer, v)
      [] X = "pan_id_compression" -> set_pan_id_compression(buffer, v)
      [] X = "sequence_number_suppression" -> set_sequence_number_suppression(buffer, v)
      [] X = "information_elements_present" -> set_information_elements_present(buffer, v)
      [] X = "dst_addressing_mode" -> set_dst_addressing_mode(buffer, v)
      [] X = "src_addressing_mode" -> set_src_addressing_mode(buffer, v)
      [] X = "frame_version" -> set_frame_version(buffer, v)

\* the values a caller passes to the setter of a field: no Unknown variant
SetterValues(X) ==
    CASE X \in FlagFields -> BOOLEAN
      [] X = "frame_type" -> FrameTypes \ {"Unknown"}
      [] X = "frame_version" -> FrameVersions \ {"Unknown"}
      [] X \in {"dst_addressing_mode", "src_addressing_mode"} ->
             AddressingModes \ {"Unknown"}

SetOnce ==
    \E X \in Fields :
        \E v \in SetterValues(X) :
            /\ fc_values[X] = None
            /\ fc_buffer' = SetField(X, fc_buffer, v)
            /\ fc_values' = [fc_values EXCEPT ![X] = Some(v)]
            /\ UNCHANGED <<fc_call, afVars, ieVars>>

InitSetOnce ==
    /\ fc_buffer = <<0, 0>>
    /\ fc_call = NoCall
    /\ fc_values = [X \in Fields |-> None]
    /\ AfIdle
    /\ IeIdle

NextSetOnce == SetOnce

SpecSetOnce == InitSetOnce /\ [][NextSetOnce]_vars

\* the values the set_fields and get_fields tests use
TestValues ==
    [X \in Fields |->
        CASE X = "frame_type" -> Some("Data")
          [] X \in {"security_enabled", "ack_request",
                    "information_elements_present"} -> Some(TRUE)
          [] X \in {"frame_pending", "pan_id_compression",
                    "sequence_number_suppression"} -> Some(FALSE)
          [] X \in {"dst_addressing_mode", "src_addressing_mode"} -> Some("Short")
          [] X = "frame_version" -> Some("Ieee802154_2020")]

\* C13: from a zeroed 2-byte buffer, after each setter has been called at
\* most once, in any order, with non-Unknown values, every getter of a
\* field that was set returns the value set; once all ten are set to
\* Data, security/ack-request/IE-present true, the other flags false, dst
\* and src Short and version 2020, the bytes are [0b0010_1001, 0b1010_1010],
\* and the getters over those bytes return those values.
C13_SetAllThenGetAll ==
    /\ \A X \in Fields :
           fc_values[X] # None => GetField(X, fc_buffer) = fc_values[X].val
    /\ fc_values = TestValues => fc_buffer = <<41, 170>>
    /\ \A X \in Fields : GetField(X, <<41, 170>>) = TestValues[X].val

\* all ten setters have been called with the values of the tests
C13_Witness ==
    /\ fc_values = TestValues
    /\ fc_buffer = <<41, 170>>

(***************************************************************************)
(* Address::from_bytes over slices of every length up to MaxAddrLen, with  *)
(* as_bytes and len read from the address it returned.                     *)
(***************************************************************************)
\* a constructor that takes any slice of 8 bytes or more as Extended
from_bytes_at_least_8(a) ==
    IF a = <<>> THEN Address_Absent
    ELSE IF Len(a) = 2 THEN short_from_bytes(CopyFromSlice(<<0, 0>>, a))
    ELSE IF Len(a) >= 8 THEN extended_from_bytes(SubSeq(a, 1, 8))
    ELSE PANIC

from_bytes(a) ==
    IF a = <<>> THEN Address_Absent
    ELSE IF Len(a) = 2 THEN short_from_bytes(CopyFromSlice(<<0, 0>>, a))
    ELSE IF Len(a) = 8
        THEN extended_from_bytes(CopyFromSlice(<<0, 0, 0, 0, 0, 0, 0, 0>>, a))
    ELSE PANIC

FromBytes ==
    /\ af_call = NoCall
    /\ af_call' =
           LET r == from_bytes(af_buffer)
           IN  [op |-> "from_bytes", ret |-> r,
                as_bytes |-> IF r = PANIC THEN PANIC ELSE as_bytes(r),
                len |-> IF r = PANIC THEN PANIC ELSE Address_len(r)]
    /\ UNCHANGED <<fcVars, af_buffer, af_written, ieVars>>

MaxAddrLen == 9
AddrBytes == {1, 255}

RECURSIVE SeqsOfLen(_, _)
SeqsOfLen(S, n) ==
    IF n = 0 THEN {<<>>}
    ELSE {<<b>> \o s : b \in S, s \in SeqsOfLen(S, n - 1)}

AddressSlices == UNION {SeqsOfLen(AddrBytes, n) : n \in 0..MaxAddrLen}

InitAddress ==
    /\ fc_buffer = <<0, 0>>
    /\ fc_call = NoCall
    /\ fc_values = NoValues
    /\ af_buffer \in AddressSlices
    /\ af_call = NoCall
    /\ af_written = NoCall
    /\ IeIdle

NextAddress == FromBytes

SpecAddress == InitAddress /\ [][NextAddress]_vars

\* C15: for a slice a of length 0, 2 or 8, Address::from_bytes(a) is
\* Absent, Short or Extended respectively, its as_bytes() is a byte for byte
\* and its len() is the length of a; for a slice of any other length
\* from_bytes aborts and returns no Address.
C15_FromBytes ==
    af_call.op = "from_bytes" =>
        IF Len(af_buffer) \in {0, 2, 8}
        THEN /\ af_call.ret # PANIC
             /\ af_call.ret.kind = CASE Len(af_buffer) = 0 -> "Absent"
                                     [] Len(af_buffer) = 2 -> "Short"
                                     [] Len(af_buffer) = 8 -> "Extended"
             /\ af_call.as_bytes = af_buffer
             /\ af_call.len = Len(af_buffer)
        ELSE af_call.ret = PANIC

\* from_bytes has returned an Extended address for 8 bytes that are not all
\* the same
C15_Witness ==
    /\ af_call.op = "from_bytes"
    /\ Len(af_buffer) = 8
    /\ af_call.ret # PANIC
    /\ af_call.ret.kind = "Extended"
    /\ af_buffer[1] # af_buffer[8]

(***************************************************************************)
(* Nested Information Elements (frame/ie/nested.rs).  A view holds only    *)
(* its data; the first two bytes are the little-endian header word.        *)
(***************************************************************************)
NestedSubIdShortTable ==
    {<<26, "TschSynchronization">>, <<27, "TschSlotframeAndLink">>,
     <<28, "TschTimeslot">>, <<29, "HoppingTiming">>,
     <<30, "EnhancedBeaconFilter">>, <<31, "MacMetrics">>,
     <<32, "AllMacMetrics">>, <<33, "CoexistenceSpecification">>,
     <<34, "SunDeviceCapabilities">>, <<35, "SunFskGenericPhy">>,
     <<36, "ModeSwitchParameter">>, <<37, "PhyParameterChange">>,
     <<38, "OQpskPhyMode">>, <<39, "PcaAllocation">>,
     <<40, "LecimDsssOperatingMode">>, <<41, "LecimFskOperatingMode">>,
     <<43, "TvwsPhyOperatingMode">>, <<44, "TvwsDeviceCapabilities">>,
     <<45, "TvwsDeviceCategory">>, <<46, "TvwsDeviceIdentification">>,
     <<47, "TvwsDeviceLocation">>, <<48, "TvwsChannelInformationQuery">>,
     <<49, "TvwsChannelInformationSource">>, <<50, "Ctm">>,
     <<51, "Timestamp">>, <<52, "TimestampDifference">>,
     <<53, "TmctpSpecification">>, <<54, "RccPhyOperatingMode">>,
     <<55, "LinkMargin">>, <<56, "RsGfskDeviceCapabilities">>,
     <<57, "MultiPhy">>, <<64, "VendorSpecific">>, <<70, "Srm">>}

NestedSubIdShort_from(value) ==
    IF \E p \in NestedSubIdShortTable : p[1] = value
        THEN (CHOOSE p \in NestedSubIdShortTable : p[1] = value)[2]
        ELSE "Unkown"

NestedSubIdLong_from(value) ==
    CASE value = 8 -> "VendorSpecificNested"
      [] value = 9 -> "ChannelHopping"
      [] OTHER -> "Unkown"

NestedSubId_Short(v) == [format |-> "Short", id |-> v]
NestedSubId_Long(v) == [format |-> "Long", id |-> v]

is_long(data) ==
    BitAnd(Shr(u16_from_le_bytes(Slice(data, 0, 2)), 15), 1) = 1

is_short(data) == ~is_long(data)

\* a length that keeps eleven bits of a long header
length_11_bits(data) ==
    IF is_long(data)
        THEN BitAnd(u16_from_le_bytes(Slice(data, 0, 2)), 2047)
        ELSE BitAnd(u16_from_le_bytes(Slice(data, 0, 2)), 127)

length(data) ==
    IF is_long(data)
        THEN BitAnd(u16_from_le_bytes(Slice(data, 0, 2)), 1023)
        ELSE BitAnd(u16_from_le_bytes(Slice(data, 0, 2)), 127)

sub_id(data) ==
    LET id == u16_from_le_bytes(Slice(data, 0, 2))
    IN  IF is_long(data)
            THEN NestedSubId_Long(NestedSubIdLong_from(AsU8(BitAnd(Shr(id, 11), 15))))
            ELSE NestedSubId_Short(NestedSubIdShort_from(AsU8(BitAnd(Shr(id, 8), 63))))

\* &data[2..][..length()]: the content, or the panic of either slicing
content(data) ==
    IF ~InBounds(data, 0, 2) THEN PANIC
    ELSE IF ~InBounds(data, 2, length(data)) THEN PANIC
    ELSE Ok(Slice(data, 2, length(data)))

NestedOps == {"is_long", "is_short", "length", "sub_id", "content"}

\* a method called through a view: all but content start with &data[0..2]
NestedCall(op, data) ==
    IF ~InBounds(data, 0, 2) THEN PANIC
    ELSE CASE op = "is_long" -> Ok(is_long(data))
           [] op = "is_short" -> Ok(is_short(data))
           [] op = "length" -> Ok(length(data))
           [] op = "sub_id" -> Ok(sub_id(data))
           [] op = "content" -> content(data)

NestedRead ==
    \E op \in NestedOps :
        /\ ie_call = NoCall
        /\ ie_call' = [op |-> op, ret |-> NestedCall(op, ie_data)]
        /\ UNCHANGED <<fcVars, afVars, ie_data, ie_stream,
                       it_offset, it_terminated, it_yielded,
                   it_kind, it_slotframes, it_slotframe_count>>

(***************************************************************************)
(* The decoders NestedInformationElementRepr::parse calls on the content   *)
(* of an element.  Indexing a slice past its end panics.  A u64 is kept as *)
(* its three low 16-bit limbs, low limb first: the ASN has 40 bits.        *)
(***************************************************************************)
absolute_slot_number(data) ==
    IF Len(data) < 5 THEN PANIC
    ELSE Ok(<<data[1] + Shl(data[2], 8), data[3] + Shl(data[4], 8), data[5]>>)

join_metric(data) == IF Len(data) < 6 THEN PANIC ELSE Ok(data[6])

TschTimeslot_id(data) == IF Len(data) < 1 THEN PANIC ELSE Ok(data[1])

number_of_slot_frames(data) == IF Len(data) < 1 THEN PANIC ELSE Ok(data[1])

TschSynchronizationRepr(asn, metric) ==
    [kind |-> "TschSynchronization", absolute_slot_number |-> asn,
     join_metric |-> metric]
TschTimeslotRepr(id) == [kind |-> "TschTimeslot", id |-> id]
TschSlotframeAndLinkRepr(n) ==
    [kind |-> "TschSlotframeAndLink", number_of_slot_frames |-> n]

\* the match of parse, arm by arm; todo!() panics
NestedInformationElementRepr_parse(data) ==
    IF ~InBounds(data, 0, 2) THEN PANIC
    ELSE LET sub == sub_id(data)
             c == content(data)
         IN  CASE sub = NestedSubId_Short("TschSynchronization") ->
                      IF c = PANIC THEN PANIC
                      ELSE IF absolute_slot_number(c.val) = PANIC
                               \/ join_metric(c.val) = PANIC THEN PANIC
                      ELSE Ok(TschSynchronizationRepr(
                                  absolute_slot_number(c.val).val,
                                  join_metric(c.val).val))
               [] sub = NestedSubId_Short("TschTimeslot") ->
                      IF c = PANIC THEN PANIC
                      ELSE IF TschTimeslot_id(c.val) = PANIC THEN PANIC
                      ELSE Ok(TschTimeslotRepr(TschTimeslot_id(c.val).val))
               [] sub = NestedSubId_Short("TschSlotframeAndLink") ->
                      IF c = PANIC THEN PANIC
                      ELSE IF number_of_slot_frames(c.val) = PANIC THEN PANIC
                      ELSE Ok(TschSlotframeAndLinkRepr(number_of_slot_frames(c.val).val))
               [] sub = NestedSubId_Long("ChannelHopping") ->
                      IF c = PANIC THEN PANIC
                      ELSE IF number_of_slot_frames(c.val) = PANIC THEN PANIC
                      ELSE Ok(TschSlotframeAndLinkRepr(number_of_slot_frames(c.val).val))
               [] OTHER -> PANIC

ReprParse ==
    /\ ie_call = NoCall
    /\ ie_call' = [op |-> "parse", ret |-> NestedInformationElementRepr_parse(ie_data)]
    /\ UNCHANGED <<fcVars, afVars, ie_data, ie_stream,
                   it_offset, it_terminated, it_yielded,
                   it_kind, it_slotframes, it_slotframe_count>>

NestedTailLen == 7

\* bytes after the header, each different from its neighbours
NestedTail(n) == [i \in 1..n |-> (17 * i + 3) % 256]

\* data of fewer than two bytes, and every header word followed by the tail
NestedViews ==
    {<<>>, <<28>>}
        \cup {<<lo, hi>> \o NestedTail(NestedTailLen) : lo \in Byte, hi \in Byte}

InitNested ==
    /\ fc_buffer = <<0, 0>>
    /\ fc_call = NoCall
    /\ fc_values = NoValues
    /\ AfIdle
    /\ ie_data \in NestedViews
    /\ ie_call = NoCall
    /\ ie_stream = <<>>
    /\ it_offset = 0
    /\ it_terminated = FALSE
    /\ it_yielded = <<>>
    /\ it_kind = "none"
    /\ it_slotframes = 0
    /\ it_slotframe_count = 0

NextNested == NestedRead \/ ReprParse

SpecNested == InitNested /\ [][NextNested]_vars

\* the header word and what it declares, by arithmetic on the two bytes
HeaderWord(data) == data[1] + 256 * data[2]
HeaderLong(data) == (HeaderWord(data) \div 32768) % 2 = 1
HeaderLength(data) ==
    IF HeaderLong(data) THEN HeaderWord(data) % 1024 ELSE HeaderWord(data) % 128
HeaderLongCode(data) == (HeaderWord(data) \div 2048) % 16
HeaderShortCode(data) == (HeaderWord(data) \div 256) % 64

C19_ParseDispatch ==
    (/\ ie_call.op = "parse"
     /\ Len(ie_data) >= 2
     /\ 2 + HeaderLength(ie_data) <= Len(ie_data)) =>
        LET c == SubSeq(ie_data, 3, 2 + HeaderLength(ie_data))
        IN  CASE ~HeaderLong(ie_data) /\ HeaderShortCode(ie_data) = 26 /\ Len(c) >= 6 ->
                     ie_call.ret =
                         Ok([kind |-> "TschSynchronization",
                             absolute_slot_number |->
                                 <<c[1] + 256 * c[2], c[3] + 256 * c[4], c[5]>>,
                             join_metric |-> c[6]])
              [] ~HeaderLong(ie_data) /\ HeaderShortCode(ie_data) = 28 /\ Len(c) >= 1 ->
                     ie_call.ret = Ok([kind |-> "TschTimeslot", id |-> c[1]])
              [] ~HeaderLong(ie_data) /\ HeaderShortCode(ie_data) = 27 /\ Len(c) >= 1 ->
                     ie_call.ret = Ok([kind |-> "TschSlotframeAndLink",
                                       number_of_slot_frames |-> c[1]])
              [] HeaderLong(ie_data) /\ HeaderLongCode(ie_data) = 9 /\ Len(c) >= 1 ->
                     /\ ie_call.ret # PANIC
                     /\ ie_call.ret.val.kind # "TschSlotframeAndLink"
                     /\ ie_call.ret = Ok([kind |-> "ChannelHopping",
                                          hopping_sequence_id |-> c[1]])
              [] OTHER -> ie_call.ret = PANIC

(***************************************************************************)
(* NestedInformationElementsIterator: data, offset and terminated, with    *)
(* next as the only step.  ie_stream keeps the elements the stream was     *)
(* built from and how many trailing bytes were cut off; it_yielded keeps   *)
(* the items handed out.                                                   *)
(***************************************************************************)
\* an element length that leaves the two header bytes out
nested_len_no_header(data, offset) ==
    length(SubSeq(data, offset + 1, Len(data)))

\* NestedInformationElement { data: &self.data[self.offset..] }.length() + 2
nested_len(data, offset) ==
    length(SubSeq(data, offset + 1, Len(data))) + 2

\* a next that hands out whatever is left when the element is cut short
Iterator_next_clamped(data, offset, terminated) ==
    IF terminated
        THEN [ret |-> None, offset |-> offset, terminated |-> terminated]
    ELSE IF ~InBounds(data, offset, 2)
        THEN [ret |-> PANIC, offset |-> offset, terminated |-> terminated]
    ELSE IF ~InBounds(data, offset, nested_len(data, offset))
        THEN [ret |-> Some(SubSeq(data, offset + 1, Len(data))),
              offset |-> Len(data), terminated |-> TRUE]
    ELSE [ret |-> Some(Slice(data, offset, nested_len(data, offset))),
          offset |-> offset + nested_len(data, offset),
          terminated |-> offset + nested_len(data, offset) >= Len(data)]

\* what next returns and the fields it leaves, from the fields it finds
Iterator_next(data, offset, terminated) ==
    IF terminated
        THEN [ret |-> None, offset |-> offset, terminated |-> terminated]
    ELSE IF ~InBounds(data, offset, 2)
        THEN [ret |-> PANIC, offset |-> offset, terminated |-> terminated]
    ELSE IF ~InBounds(data, offset, nested_len(data, offset))
        THEN [ret |-> PANIC, offset |-> offset, terminated |-> terminated]
    ELSE [ret |-> Some(Slice(data, offset, nested_len(data, offset))),
          offset |-> offset + nested_len(data, offset),
          terminated |-> offset + nested_len(data, offset) >= Len(data)]

IteratorNext ==
    LET r == Iterator_next(ie_data, it_offset, it_terminated)
    IN  /\ it_kind = "nested"
        /\ IF ie_call = NoCall THEN TRUE ELSE ie_call.ret # PANIC
        /\ ie_call' = [op |-> "next", ret |-> r.ret,
                       before |-> [offset |-> it_offset,
                                   terminated |-> it_terminated,
                                   count |-> Len(it_yielded),
                                   ret |-> IF ie_call = NoCall
                                               THEN NoCall ELSE ie_call.ret]]
        /\ it_offset' = r.offset
        /\ it_terminated' = r.terminated
        /\ it_yielded' = IF r.ret \notin {None, PANIC}
                             THEN Append(it_yielded, r.ret.val)
                             ELSE it_yielded
        /\ UNCHANGED <<fcVars, afVars, ie_data, ie_stream,
                       it_kind, it_slotframes, it_slotframe_count>>

MaxContentLen == 1
MaxElems == 3
MaxCut == 2

ShortElement(code, spare, n) ==
    u16_to_le_bytes(n + 128 * spare + 256 * code) \o NestedTail(n)
LongElement(code, spare, n) ==
    u16_to_le_bytes(n + 1024 * spare + 2048 * code + 32768) \o NestedTail(n)

\* well-formed elements: short and long, with the header bit that length()
\* masks off clear or set
Elements ==
    {ShortElement(26, 0, n) : n \in 0..MaxContentLen}
        \cup {ShortElement(28, 1, n) : n \in 0..MaxContentLen}
        \cup {LongElement(9, 0, n) : n \in 0..MaxContentLen}
        \cup {LongElement(8, 1, n) : n \in 0..MaxContentLen}

RECURSIVE Concat(_)
Concat(ss) == IF ss = <<>> THEN <<>> ELSE Head(ss) \o Concat(Tail(ss))

\* the streams of up to MaxElems elements, whole or with up to MaxCut
\* trailing bytes missing
Streams(maxElems, maxCut) ==
    {[elems |-> es, cut |-> k] :
        es \in UNION {SeqsOfLen(Elements, n) : n \in 0..maxElems},
        k \in 0..maxCut}

StreamBytes(st) ==
    SubSeq(Concat(st.elems), 1, Len(Concat(st.elems)) - st.cut)

InitIterator ==
    /\ fc_buffer = <<0, 0>>
    /\ fc_call = NoCall
    /\ fc_values = NoValues
    /\ AfIdle
    /\ ie_stream \in {st \in Streams(MaxElems, MaxCut) :
                          st.cut <= Len(Concat(st.elems))}
    /\ ie_data = StreamBytes(ie_stream)
    /\ ie_call = NoCall
    /\ it_offset = 0
    /\ it_terminated = FALSE
    /\ it_yielded = <<>>
    /\ it_kind = "nested"
    /\ it_slotframes = 0
    /\ it_slotframe_count = 0

NextIterator == IteratorNext

SpecIterator == InitIterator /\ [][NextIterator]_vars

RECURSIVE SumOfLens(_)
SumOfLens(ss) == IF ss = <<>> THEN 0 ELSE Len(Head(ss)) + SumOfLens(Tail(ss))

\* a stream that is the concatenation of N >= 1 whole elements
WellFormedStream ==
    /\ ie_stream.cut = 0
    /\ Len(ie_stream.elems) >= 1

\* C17: over a stream that is the concatenation of N >= 1 well-formed
\* elements the iterator yields exactly N items in stream order, the i-th
\* item being the bytes of the i-th element at its place in the stream; the
\* (length() + 2) of the items sum to the stream length; and the call after
\* the N-th item, and no earlier call, returns None.
C17_IteratorYieldsEachElement ==
    WellFormedStream =>
        LET N == Len(ie_stream.elems)
        IN  /\ Len(it_yielded) <= N
            /\ \A i \in 1..Len(it_yielded) :
                   /\ it_yielded[i] = ie_stream.elems[i]
                   /\ Len(it_yielded[i]) = HeaderLength(it_yielded[i]) + 2
            /\ it_offset = SumOfLens(it_yielded)
            /\ SubSeq(ie_data, 1, it_offset) = Concat(it_yielded)
            /\ ie_call.op = "next" =>
                   IF ie_call.before.count < N
                   THEN ie_call.ret = Some(ie_stream.elems[ie_call.before.count + 1])
                   ELSE /\ ie_call.ret = None
                        /\ Len(it_yielded) = N
                        /\ SumOfLens(it_yielded) = Len(ie_data)

\* three elements of different lengths and both formats have been yielded
\* and the fourth call has returned None
C17_Witness ==
    /\ WellFormedStream
    /\ ie_call.op = "next"
    /\ ie_call.ret = None
    /\ Len(it_yielded) = 3
    /\ HeaderLong(it_yielded[1])
    /\ ~HeaderLong(it_yielded[2])
    /\ Len(it_yielded[1]) # Len(it_yielded[2])
    /\ Len(it_yielded[2]) # Len(it_yielded[3])

\* the bytes left at the cursor when the last call was made
RemainingBefore == Len(ie_data) - ie_call.before.offset

\* fewer than the two header bytes are left, or fewer than the header at the
\* cursor declares
ShortRemainder ==
    \/ RemainingBefore < 2
    \/ RemainingBefore
           < HeaderLength(SubSeq(ie_data, ie_call.before.offset + 1, Len(ie_data))) + 2

\* C18 as stated: whenever the bytes left at the cursor are fewer than the
\* two header bytes or than the next header's length() + 2, next is an
\* out-of-bounds panic, neither None nor a shortened element; and no yielded
\* element extends past the end of the stream.
C18_ShortRemainderPanics ==
    ie_call.op = "next" =>
        /\ ShortRemainder => ie_call.ret = PANIC
        /\ ie_call.ret \notin {None, PANIC} =>
               ie_call.before.offset + Len(ie_call.ret.val) <= Len(ie_data)

\* C18 as amended: the same for every call made before the iterator has
\* terminated; a terminated iterator, whose cursor is at the end of the
\* stream, returns None.
C18_ShortRemainderPanicsUnlessTerminated ==
    ie_call.op = "next" =>
        /\ (ShortRemainder /\ ~ie_call.before.terminated) =>
               /\ ie_call.ret = PANIC
               /\ it_offset = ie_call.before.offset
               /\ Len(it_yielded) = ie_call.before.count
        /\ (ShortRemainder /\ ie_call.before.terminated) =>
               /\ ie_call.ret = None
               /\ RemainingBefore = 0
        /\ ie_call.ret \notin {None, PANIC} =>
               /\ ie_call.before.offset + Len(ie_call.ret.val) <= Len(ie_data)
               /\ Len(ie_call.ret.val)
                      = HeaderLength(SubSeq(ie_data, ie_call.before.offset + 1,
                                            Len(ie_data))) + 2

\* after one element was yielded, next has panicked on a second element
\* whose header is whole but whose content is cut short
C18_Witness ==
    /\ ie_call.op = "next"
    /\ ie_call.ret = PANIC
    /\ ie_call.before.count = 1
    /\ RemainingBefore >= 2
    /\ ShortRemainder

(***************************************************************************)
(* TschTimeslot::timeslot_timings over a content of any length.  Durations *)
(* are whole microseconds.                                                 *)
(***************************************************************************)
DEFAULT_ID == 0
DEFAULT_GUARD_TIME == 2200

\* a table whose rx offset is the tx offset less the whole guard time
TschTimeslotTimings_new_full_guard(id, guard_time) ==
    [id |-> id,
     cca_offset |-> 1800,
     cca |-> 128,
     tx_offset |-> 2120,
     rx_offset |-> 2120 - guard_time,
     rx_ack_delay |-> 800,
     tx_ack_delay |-> 1000,
     rx_wait |-> guard_time,
     ack_wait |-> 400,
     rx_tx |-> 192,
     max_ack |-> 2400,
     max_tx |-> 4256,
     time_slot_length |-> 10000]

TschTimeslotTimings_new(id, guard_time) ==
    [id |-> id,
     cca_offset |-> 1800,
     cca |-> 128,
     tx_offset |-> 2120,
     rx_offset |-> 2120 - (guard_time \div 2),
     rx_ack_delay |-> 800,
     tx_ack_delay |-> 1000,
     rx_wait |-> guard_time,
     ack_wait |-> 400,
     rx_tx |-> 192,
     max_ack |-> 2400,
     max_tx |-> 4256,
     time_slot_length |-> 10000]

TschTimeslotTimings_default == TschTimeslotTimings_new(0, DEFAULT_GUARD_TIME)

\* { let b = &data[from..][..n]; u16::from_le_bytes([b[0], b[1]]) }
ReadU16(data, from, n) ==
    IF ~InBounds(data, from, n) THEN PANIC
    ELSE Ok(u16_from_le_bytes(Slice(data, from, n)))

\* the width of max_tx and time_slot_length, and where the latter starts
WideLen(data) == IF Len(data) = 25 THEN 2 ELSE 3
TimeSlotLengthOffset(data) == IF Len(data) = 25 THEN 23 ELSE 24

timeslot_timings(data) ==
    IF TschTimeslot_id(data) = PANIC THEN PANIC
    ELSE IF TschTimeslot_id(data).val = DEFAULT_ID THEN Ok(TschTimeslotTimings_default)
    ELSE LET rd == [k \in 1..10 |-> ReadU16(data, 2 * k - 1, 2)]
             max_tx == ReadU16(data, 21, WideLen(data))
             time_slot_length ==
                 ReadU16(data, TimeSlotLengthOffset(data), WideLen(data))
         IN  IF (\E k \in 1..10 : rd[k] = PANIC)
                 \/ max_tx = PANIC \/ time_slot_length = PANIC
             THEN PANIC
             ELSE Ok([id |-> TschTimeslot_id(data).val,
                      cca_offset |-> rd[1].val,
                      cca |-> rd[2].val,
                      tx_offset |-> rd[3].val,
                      rx_offset |-> rd[4].val,
                      rx_ack_delay |-> rd[5].val,
                      tx_ack_delay |-> rd[6].val,
                      rx_wait |-> rd[7].val,
                      ack_wait |-> rd[8].val,
                      rx_tx |-> rd[9].val,
                      max_ack |-> rd[10].val,
                      max_tx |-> max_tx.val,
                      time_slot_length |-> time_slot_length.val])

TimeslotTimings ==
    /\ ie_call = NoCall
    /\ ie_call' = [op |-> "timeslot_timings", ret |-> timeslot_timings(ie_data)]
    /\ UNCHANGED <<fcVars, afVars, ie_data, ie_stream,
                   it_offset, it_terminated, it_yielded,
                   it_kind, it_slotframes, it_slotframe_count>>

MaxTimeslotLen == 27
MaxSeed == 3
TimeslotIds == {0, 1, 255}

\* the bytes after the ID: a different pattern for every seed
TimeslotTail(seed, n) == [i \in 1..n |-> (37 * seed + 11 * i) % 256]

\* the empty content, and every ID followed by 0 .. MaxTimeslotLen - 1 bytes
TimeslotContents ==
    {<<>>} \cup {<<id>> \o TimeslotTail(seed, n - 1) :
                     id \in TimeslotIds, seed \in 0..MaxSeed, n \in 1..MaxTimeslotLen}

InitTimeslot ==
    /\ fc_buffer = <<0, 0>>
    /\ fc_call = NoCall
    /\ fc_values = NoValues
    /\ AfIdle
    /\ ie_data \in TimeslotContents
    /\ ie_call = NoCall
    /\ ie_stream = <<>>
    /\ it_offset = 0
    /\ it_terminated = FALSE
    /\ it_yielded = <<>>
    /\ it_kind = "none"
    /\ it_slotframes = 0
    /\ it_slotframe_count = 0

NextTimeslot == TimeslotTimings

SpecTimeslot == InitTimeslot /\ [][NextTimeslot]_vars

\* C20: for a TSCH Timeslot content whose ID byte is 0, of any length >= 1
\* and with any bytes after the ID, timeslot_timings() returns the default
\* table (in microseconds) and needs no byte after the ID.
C20_DefaultTimings ==
    (/\ ie_call.op = "timeslot_timings"
     /\ Len(ie_data) >= 1
     /\ ie_data[1] = 0) =>
        ie_call.ret = Ok([id |-> 0,
                          cca_offset |-> 1800,
                          cca |-> 128,
                          tx_offset |-> 2120,
                          rx_offset |-> 1020,
                          rx_ack_delay |-> 800,
                          tx_ack_delay |-> 1000,
                          rx_wait |-> 2200,
                          ack_wait |-> 400,
                          rx_tx |-> 192,
                          max_ack |-> 2400,
                          max_tx |-> 4256,
                          time_slot_length |-> 10000])

\* the table has been returned for a content that is the ID byte alone
C20_Witness ==
    /\ ie_call.op = "timeslot_timings"
    /\ ie_data = <<0>>
    /\ ie_call.ret # PANIC
    /\ ie_call.ret.val.rx_wait = 2200


\* the little-endian value of the n bytes of data that start at offset from
LeValue(data, from, n) ==
    IF n = 2 THEN data[from + 1] + 256 * data[from + 2]
    ELSE data[from + 1] + 256 * data[from + 2] + 65536 * data[from + 3]

\* C22: for a TSCH Timeslot record with ID != 0, a record of exactly 25 bytes
\* has max_tx in the 2 little-endian bytes at offsets 21..22 and
\* time_slot_length in those at offsets 23..24; a longer record has max_tx in
\* the 3 little-endian bytes at offsets 21..23 and time_slot_length in those
\* at offsets 24..26, so values of 65536 and above are not truncated.
C22_WideFields ==
    (/\ ie_call.op = "timeslot_timings"
     /\ Len(ie_data) >= 25
     /\ Len(ie_data) # 26
     /\ ie_data[1] # 0) =>
        /\ ie_call.ret # PANIC
        /\ IF Len(ie_data) = 25
           THEN /\ ie_call.ret.val.max_tx = LeValue(ie_data, 21, 2)
                /\ ie_call.ret.val.time_slot_length = LeValue(ie_data, 23, 2)
           ELSE /\ ie_call.ret.val.max_tx = LeValue(ie_data, 21, 3)
                /\ ie_call.ret.val.time_slot_length = LeValue(ie_data, 24, 3)

\* the part of C22 about records of exactly 25 bytes
C22_NarrowFields ==
    (/\ ie_call.op = "timeslot_timings"
     /\ Len(ie_data) = 25
     /\ ie_data[1] # 0) =>
        /\ ie_call.ret # PANIC
        /\ ie_call.ret.val.max_tx = LeValue(ie_data, 21, 2)
        /\ ie_call.ret.val.time_slot_length = LeValue(ie_data, 23, 2)

\* C24: a NestedInformationElementsIterator over an empty region yields no
\* item: its first next() returns None, without failing.
C24_EmptyRegionYieldsNone ==
    (/\ it_kind = "nested"
     /\ ie_data = <<>>
     /\ ie_call.op = "next") =>
        /\ ie_call.ret = None
        /\ it_yielded = <<>>

\* the variants of the two sub-ID enums other than Unkown
NestedSubIdShortVariants == {p[2] : p \in NestedSubIdShortTable}
NestedSubIdLongVariants == {"VendorSpecificNested", "ChannelHopping"}

\* C28: every variant of NestedSubIdShort other than the unknown one
\* (VendorSpecific = 0x40 and Srm = 0x46 included) and every variant of
\* NestedSubIdLong other than the unknown one is what sub_id() returns for
\* at least one 16-bit header of the matching format.
C28_EveryVariantIsReturned ==
    (ie_call.op = "sub_id" /\ Len(ie_data) >= 2) =>
        /\ \A v \in NestedSubIdShortVariants :
               \E lo \in Byte, hi \in Byte :
                   /\ is_short(<<lo, hi>>)
                   /\ sub_id(<<lo, hi>>) = NestedSubId_Short(v)
        /\ \A v \in NestedSubIdLongVariants :
               \E lo \in Byte, hi \in Byte :
                   /\ is_long(<<lo, hi>>)
                   /\ sub_id(<<lo, hi>>) = NestedSubId_Long(v)

\* sub_id() returns neither of the two variants whose code needs a seventh bit
C28_SeventhBitVariantsNeverReturned ==
    (ie_call.op = "sub_id" /\ Len(ie_data) >= 2) =>
        ie_call.ret.val
            \notin {NestedSubId_Short("VendorSpecific"), NestedSubId_Short("Srm")}


(***************************************************************************)
(* TschTimeslotTimings::emit, and the table parsed back from the buffer it *)
(* wrote.  A Duration is its whole number of microseconds.                 *)
(***************************************************************************)
TimingFields ==
    <<"cca_offset", "cca", "tx_offset", "rx_offset", "rx_ack_delay",
      "tx_ack_delay", "rx_wait", "ack_wait", "rx_tx", "max_ack", "max_tx",
      "time_slot_length">>

\* x as u16
AsU16(x) == x % 65536

\* a write of the two bytes high byte first
EmitU16_big_endian(st, from, us) ==
    IF st.ret = PANIC THEN st
    ELSE IF ~InBounds(st.buffer, from, 2) THEN [st EXCEPT !.ret = PANIC]
    ELSE [st EXCEPT !.buffer =
              [i \in 1..Len(st.buffer) |->
                  IF i = from + 1 THEN u16_to_le_bytes(AsU16(us))[2]
                  ELSE IF i = from + 2 THEN u16_to_le_bytes(AsU16(us))[1]
                  ELSE st.buffer[i]]]

\* buffer[from..][..2].copy_from_slice(&(x.as_us() as u16).to_le_bytes()),
\* on the buffer as the writes before it left it; nothing once one panicked
EmitU16(st, from, us) ==
    IF st.ret = PANIC THEN st
    ELSE IF ~InBounds(st.buffer, from, 2) THEN [st EXCEPT !.ret = PANIC]
    ELSE [st EXCEPT !.buffer =
              [i \in 1..Len(st.buffer) |->
                  IF i = from + 1 THEN u16_to_le_bytes(AsU16(us))[1]
                  ELSE IF i = from + 2 THEN u16_to_le_bytes(AsU16(us))[2]
                  ELSE st.buffer[i]]]

\* the result of emit and the buffer it leaves, statement by statement
emit(self, buffer) ==
    IF Len(buffer) < 1 THEN [ret |-> PANIC, buffer |-> buffer]
    ELSE LET s0 == [ret |-> Ok(<<>>), buffer |-> [buffer EXCEPT ![1] = self.id]]
             s1 == EmitU16(s0, 1, self.cca_offset)
             s2 == EmitU16(s1, 3, self.cca)
             s3 == EmitU16(s2, 5, self.tx_offset)
             s4 == EmitU16(s3, 7, self.rx_offset)
             s5 == EmitU16(s4, 9, self.rx_ack_delay)
             s6 == EmitU16(s5, 11, self.tx_ack_delay)
             s7 == EmitU16(s6, 13, self.rx_wait)
             s8 == EmitU16(s7, 15, self.ack_wait)
             s9 == EmitU16(s8, 17, self.rx_tx)
             s10 == EmitU16(s9, 19, self.max_ack)
             s11 == EmitU16(s10, 21, self.max_tx)
         IN  EmitU16(s11, 23, self.time_slot_length)

\* ie_stream holds the table; the buffer is ie_data
Emit ==
    /\ ie_call = NoCall
    /\ ~ie_stream.emitted
    /\ ie_call' = [op |-> "emit", ret |-> emit(ie_stream.table, ie_data).ret]
    /\ ie_data' = emit(ie_stream.table, ie_data).buffer
    /\ ie_stream' = [ie_stream EXCEPT !.emitted = TRUE]
    /\ UNCHANGED <<fcVars, afVars, it_offset, it_terminated, it_yielded,
                   it_kind, it_slotframes, it_slotframe_count>>

\* TschTimeslot::new(buffer).timeslot_timings() once emit has returned
Reparse ==
    /\ ie_call.op = "emit"
    /\ ie_call.ret # PANIC
    /\ ie_call' = [op |-> "timeslot_timings", ret |-> timeslot_timings(ie_data)]
    /\ UNCHANGED <<fcVars, afVars, ie_data, ie_stream,
                   it_offset, it_terminated, it_yielded,
                   it_kind, it_slotframes, it_slotframe_count>>

MaxGuardTime == 4240
MaxEmitLen == 27
EmitIds == {1, 255}

\* values a setter is given: the ends of the u16 range, a value whose two
\* bytes differ, and values outside the range
EmitValues == {0, 1, 258, 65535, 65536, 70000, 0 - 1}

\* a table with twelve different values
AllSet(id) ==
    [f \in {TimingFields[k] : k \in 1..12} \cup {"id"} |->
        IF f = "id" THEN id
        ELSE 5003 * (CHOOSE k \in 1..12 : TimingFields[k] = f)]

\* new(0, g) for every guard time, and for a non-zero ID a table made by new
\* and one setter, or by all twelve setters
EmitTables(maxGuardTime) ==
    {TschTimeslotTimings_new(0, g) : g \in 0..maxGuardTime}
        \cup {[TschTimeslotTimings_new(id, DEFAULT_GUARD_TIME) EXCEPT ![TimingFields[k]] = v] :
                 id \in EmitIds, k \in 1..12, v \in EmitValues}
        \cup {AllSet(id) : id \in EmitIds}

InitEmit ==
    /\ fc_buffer = <<0, 0>>
    /\ fc_call = NoCall
    /\ fc_values = NoValues
    /\ AfIdle
    /\ \E n \in 24..MaxEmitLen : ie_data = TimeslotTail(1, n)
    /\ ie_call = NoCall
    /\ \E t \in EmitTables(MaxGuardTime) : ie_stream = [table |-> t, emitted |-> FALSE]
    /\ it_offset = 0
    /\ it_terminated = FALSE
    /\ it_yielded = <<>>
    /\ it_kind = "none"
    /\ it_slotframes = 0
    /\ it_slotframe_count = 0

NextEmit == Emit \/ Reparse

SpecEmit == InitEmit /\ [][NextEmit]_vars

\* C21: for every guard time g in 0..4240, emitting new(0, g) into a 25-byte
\* buffer and parsing the buffer back with timeslot_timings() returns the
\* twelve timings of the emitted table, rx_offset = 2120 - g/2 and
\* rx_wait = g among them.
C21_DefaultTableRoundTrip ==
    (/\ ie_call.op = "timeslot_timings"
     /\ ie_stream.emitted
     /\ ie_stream.table.id = 0
     /\ Len(ie_data) = 25) =>
        /\ ie_call.ret = Ok(ie_stream.table)
        /\ ie_call.ret.val.rx_offset = 2120 - (ie_stream.table.rx_wait \div 2)

\* the table parsed back is the emitted one when the guard time is the default
C21_DefaultGuardRoundTrip ==
    (/\ ie_call.op = "timeslot_timings"
     /\ ie_stream.emitted
     /\ ie_stream.table.id = 0
     /\ ie_stream.table.rx_wait = DEFAULT_GUARD_TIME
     /\ Len(ie_data) = 25) =>
        ie_call.ret = Ok(ie_stream.table)

\* the table with every timing reduced modulo 2^16
AsU16Table(t) ==
    [f \in DOMAIN t |-> IF f = "id" THEN t[f] ELSE AsU16(t[f])]

\* C29: for every non-zero ID and twelve timings, emit into a buffer of
\* exactly 25 bytes writes the ID at offset 0 and the low 16 bits of each
\* timing, little-endian, at offsets 1, 3, ..., 23, and timeslot_timings()
\* on that buffer returns the same ID and the timings modulo 2^16: the
\* same timings when each is in 0..65535.
C29_EmitThenParse ==
    (/\ ie_stream # <<>>
     /\ ie_stream.emitted
     /\ ie_stream.table.id # 0
     /\ Len(ie_data) = 25) =>
        /\ ie_call.ret # PANIC
        /\ ie_data[1] = ie_stream.table.id
        /\ \A k \in 1..12 :
               /\ ie_data[2 * k] = (ie_stream.table[TimingFields[k]] % 65536) % 256
               /\ ie_data[2 * k + 1] = (ie_stream.table[TimingFields[k]] % 65536) \div 256
        /\ ie_call.op = "timeslot_timings" =>
               /\ ie_call.ret = Ok(AsU16Table(ie_stream.table))
               /\ (\A k \in 1..12 : ie_stream.table[TimingFields[k]] \in 0..65535)
                      => ie_call.ret = Ok(ie_stream.table)

\* a table whose max_tx is 70000 has been emitted and parsed back as 4464
C29_Witness ==
    /\ ie_stream # <<>>
    /\ ie_stream.emitted
    /\ ie_stream.table.id = 255
    /\ ie_stream.table.max_tx = 70000
    /\ Len(ie_data) = 25
    /\ ie_call.op = "timeslot_timings"
    /\ ie_call.ret # PANIC
    /\ ie_call.ret.val.max_tx = 4464
    /\ ie_call.ret.val.time_slot_length = 10000

(***************************************************************************)
(* The slotframe descriptors of a TSCH Slotframe and Link content and the  *)
(* link descriptors of a slotframe descriptor.  A descriptor view is the   *)
(* data from its first byte to the end of the iterator's data; an item is  *)
(* recorded with the offset it starts at.                                  *)
(***************************************************************************)
LinkDescriptor_len == 5

SlotframeDescriptor_links(data) == IF Len(data) < 4 THEN PANIC ELSE Ok(data[4])

\* a length that counts four bytes for a link
SlotframeDescriptor_len_short_links(data) ==
    IF SlotframeDescriptor_links(data) = PANIC THEN PANIC
    ELSE Ok(4 + SlotframeDescriptor_links(data).val * 4)

SlotframeDescriptor_len(data) ==
    IF SlotframeDescriptor_links(data) = PANIC THEN PANIC
    ELSE Ok(4 + SlotframeDescriptor_links(data).val * 5)

SlotframeDescriptorIterator_new(slotframes, data) ==
    [data |-> data, offset |-> 0, terminated |-> slotframes = 0,
     slotframes |-> slotframes, slotframe_count |-> 0]

\* TschSlotframeAndLink::slotframe_descriptors: the count is the first byte
slotframe_descriptors(data) ==
    IF number_of_slot_frames(data) = PANIC THEN PANIC
    ELSE Ok(SlotframeDescriptorIterator_new(number_of_slot_frames(data).val,
                                            SubSeq(data, 2, Len(data))))

\* the count is raised before the descriptor's length is read
SlotframeDescriptorIterator_next(data, offset, terminated, slotframes, slotframe_count) ==
    IF terminated
        THEN [ret |-> None, offset |-> offset, terminated |-> terminated,
              slotframe_count |-> slotframe_count]
    ELSE IF offset > Len(data)
        THEN [ret |-> PANIC, offset |-> offset, terminated |-> terminated,
              slotframe_count |-> slotframe_count]
    ELSE LET descriptor == SubSeq(data, offset + 1, Len(data))
             len == SlotframeDescriptor_len(descriptor)
         IN  IF len = PANIC
                 THEN [ret |-> PANIC, offset |-> offset, terminated |-> terminated,
                       slotframe_count |-> slotframe_count + 1]
                 ELSE [ret |-> Some([offset |-> offset, data |-> descriptor]),
                       offset |-> offset + len.val,
                       terminated |-> \/ offset + len.val >= Len(data)
                                      \/ slotframe_count + 1 >= slotframes,
                       slotframe_count |-> slotframe_count + 1]

LinkDescriptorIterator_new(data) ==
    [data |-> data, offset |-> 0, terminated |-> FALSE]

\* SlotframeDescriptor::link_descriptors: &data[4..][..links * 5]
link_descriptors(data) ==
    IF SlotframeDescriptor_links(data) = PANIC THEN PANIC
    ELSE IF ~InBounds(data, 4, SlotframeDescriptor_links(data).val * LinkDescriptor_len)
        THEN PANIC
    ELSE Ok(LinkDescriptorIterator_new(
                Slice(data, 4, SlotframeDescriptor_links(data).val * LinkDescriptor_len)))

LinkDescriptorIterator_next(data, offset, terminated) ==
    IF terminated
        THEN [ret |-> None, offset |-> offset, terminated |-> terminated]
    ELSE IF offset > Len(data)
        THEN [ret |-> PANIC, offset |-> offset, terminated |-> terminated]
    ELSE [ret |-> Some([offset |-> offset,
                        data |-> SubSeq(data, offset + 1, Len(data))]),
          offset |-> offset + LinkDescriptor_len,
          terminated |-> offset + LinkDescriptor_len >= Len(data)]

\* what a call of next records: its result and the iterator before it
NextCall(ret) ==
    [op |-> "next", ret |-> ret,
     before |-> [offset |-> it_offset,
                 terminated |-> it_terminated,
                 count |-> Len(it_yielded),
                 ret |-> IF ie_call.op = "next" THEN ie_call.ret ELSE NoCall]]

\* the iterator over the content held in ie_data
SlotframeDescriptors ==
    LET r == slotframe_descriptors(ie_data)
    IN  /\ it_kind = "content"
        /\ ie_call = NoCall
        /\ IF r = PANIC
           THEN /\ ie_call' = [op |-> "slotframe_descriptors", ret |-> PANIC]
                /\ UNCHANGED <<ie_data, it_kind, it_offset, it_terminated,
                               it_slotframes, it_slotframe_count>>
           ELSE /\ ie_call' = [op |-> "slotframe_descriptors", ret |-> Ok(<<>>)]
                /\ it_kind' = "slotframe"
                /\ ie_data' = r.val.data
                /\ it_offset' = r.val.offset
                /\ it_terminated' = r.val.terminated
                /\ it_slotframes' = r.val.slotframes
                /\ it_slotframe_count' = r.val.slotframe_count
        /\ UNCHANGED <<fcVars, afVars, ie_stream, it_yielded>>

SlotframeNext ==
    LET r == SlotframeDescriptorIterator_next(ie_data, it_offset, it_terminated,
                                              it_slotframes, it_slotframe_count)
    IN  /\ it_kind = "slotframe"
        /\ ie_call.ret # PANIC
        /\ ie_call' = NextCall(r.ret)
        /\ it_offset' = r.offset
        /\ it_terminated' = r.terminated
        /\ it_slotframe_count' = r.slotframe_count
        /\ it_yielded' = IF r.ret \notin {None, PANIC}
                             THEN Append(it_yielded, r.ret.val) ELSE it_yielded
        /\ UNCHANGED <<fcVars, afVars, ie_data, ie_stream, it_kind, it_slotframes>>

\* the link iterator of the slotframe descriptor next has just returned
LinkDescriptors ==
    /\ it_kind = "slotframe"
    /\ ie_call.op = "next"
    /\ ie_call.ret \notin {None, PANIC}
    /\ LET r == link_descriptors(ie_call.ret.val.data)
       IN  /\ ie_stream' = [ie_stream EXCEPT !.descriptor = Some(ie_call.ret.val)]
           /\ IF r = PANIC
              THEN /\ ie_call' = [op |-> "link_descriptors", ret |-> PANIC]
                   /\ UNCHANGED <<ie_data, it_kind, it_offset, it_terminated,
                                  it_yielded>>
              ELSE /\ ie_call' = [op |-> "link_descriptors", ret |-> Ok(<<>>)]
                   /\ it_kind' = "link"
                   /\ ie_data' = r.val.data
                   /\ it_offset' = r.val.offset
                   /\ it_terminated' = r.val.terminated
                   /\ it_yielded' = <<>>
    /\ UNCHANGED <<fcVars, afVars, it_slotframes, it_slotframe_count>>

LinkNext ==
    LET r == LinkDescriptorIterator_next(ie_data, it_offset, it_terminated)
    IN  /\ it_kind = "link"
        /\ ie_call.ret # PANIC
        /\ ie_call' = NextCall(r.ret)
        /\ it_offset' = r.offset
        /\ it_terminated' = r.terminated
        /\ it_yielded' = IF r.ret \notin {None, PANIC}
                             THEN Append(it_yielded, r.ret.val) ELSE it_yielded
        /\ UNCHANGED <<fcVars, afVars, ie_data, ie_stream, it_kind,
                       it_slotframes, it_slotframe_count>>

MaxSlotframes == 3
MaxLinks == 2
MaxSlotCut == 5

\* a whole slotframe descriptor with the given number of links
WholeDescriptor(links) ==
    <<16 + links, 101, 0, links>> \o [i \in 1..(5 * links) |-> 200 + i]

\* the link counts of up to maxSlotframes descriptors, a number of bytes cut
\* from the end, and a declared count
SlotContents(maxSlotframes, maxLinks, maxCut) ==
    UNION {[links : SeqsOfLen(0..maxLinks, k), cut : 0..maxCut,
            count : 0..(maxSlotframes + 1)] : k \in 0..maxSlotframes}

\* the bytes after the count byte
SlotBytes(st) ==
    LET whole == Concat([i \in 1..Len(st.links) |-> WholeDescriptor(st.links[i])])
    IN  SubSeq(whole, 1, Len(whole) - st.cut)

InitSlotframe ==
    /\ fc_buffer = <<0, 0>>
    /\ fc_call = NoCall
    /\ fc_values = NoValues
    /\ AfIdle
    /\ \/ \E st \in SlotContents(MaxSlotframes, MaxLinks, MaxSlotCut) :
              /\ st.cut <= 4 * Len(st.links)
              /\ ie_stream = [links |-> st.links, cut |-> st.cut,
                              count |-> st.count, descriptor |-> None]
              /\ ie_data = <<st.count>> \o SlotBytes(st)
       \/ /\ ie_stream = [links |-> <<>>, cut |-> 0, count |-> 0,
                          descriptor |-> None]
          /\ ie_data = <<>>
    /\ ie_call = NoCall
    /\ it_offset = 0
    /\ it_terminated = FALSE
    /\ it_yielded = <<>>
    /\ it_kind = "content"
    /\ it_slotframes = 0
    /\ it_slotframe_count = 0

NextSlotframe == SlotframeDescriptors \/ SlotframeNext \/ LinkDescriptors \/ LinkNext

InitIterators == InitIterator \/ InitSlotframe

NextIterators == NextIterator \/ NextSlotframe

SpecIterators == InitIterators /\ [][NextIterators]_vars

Min(a, b) == IF a <= b THEN a ELSE b

\* the offset at which descriptor i + 1 of the content starts
RECURSIVE DescriptorStart(_, _)
DescriptorStart(links, i) ==
    IF i = 0 THEN 0 ELSE DescriptorStart(links, i - 1) + 4 + 5 * links[i]

\* C23: for a declared count C and a buffer of exactly K whole slotframe
\* descriptors, with C = 0 or K >= 1, the iterator yields exactly min(C, K)
\* items and then None, the i-th item starting at the sum of the lengths
\* 4 + links * 5 of the descriptors before it; count 0 yields no item.
C23_YieldsMinOfCountAndDescriptors ==
    (/\ it_kind = "slotframe"
     /\ ie_stream.cut = 0
     /\ ie_stream.count = 0 \/ Len(ie_stream.links) >= 1) =>
        LET expected == Min(ie_stream.count, Len(ie_stream.links))
        IN  /\ ie_call.ret # PANIC
            /\ Len(it_yielded) <= expected
            /\ \A i \in 1..Len(it_yielded) :
                   /\ it_yielded[i].offset = DescriptorStart(ie_stream.links, i - 1)
                   /\ SubSeq(it_yielded[i].data, 1, 4 + 5 * ie_stream.links[i])
                          = WholeDescriptor(ie_stream.links[i])
            /\ it_terminated <=> Len(it_yielded) = expected
            /\ (ie_call.op = "next" /\ ie_call.ret = None)
                   => Len(it_yielded) = expected

\* three descriptors under a declared count of four: three items, then None
C23_Witness ==
    /\ it_kind = "slotframe"
    /\ ie_stream.cut = 0
    /\ ie_stream.links = <<2, 0, 1>>
    /\ ie_stream.count = 4
    /\ Len(it_yielded) = 3
    /\ it_yielded[3].offset = 18
    /\ ie_call.op = "next"
    /\ ie_call.ret = None

\* two items of three descriptors under a declared count of two, then None
C23_WitnessCount ==
    /\ it_kind = "slotframe"
    /\ ie_stream.cut = 0
    /\ Len(ie_stream.links) = 3
    /\ ie_stream.count = 2
    /\ Len(it_yielded) = 2
    /\ ie_call.op = "next"
    /\ ie_call.ret = None

\* C26: for every declared count and every buffer, an empty buffer with a
\* non-zero count and a buffer that ends inside a descriptor included,
\* SlotframeDescriptorIterator::next reads no index at or beyond the buffer
\* length: it returns None as soon as the declared count is reached or fewer
\* than 4 bytes remain at the cursor.
C26_NextStaysInBounds ==
    (it_kind = "slotframe" /\ ie_call.op = "next") =>
        /\ ie_call.ret # PANIC
        /\ (\/ ie_call.before.count >= it_slotframes
            \/ Len(ie_data) - ie_call.before.offset < 4) => ie_call.ret = None

\* next returns None once the declared count is reached
C26_StopsAtCount ==
    (/\ it_kind = "slotframe"
     /\ ie_call.op = "next"
     /\ ie_call.before.count >= it_slotframes) => ie_call.ret = None

\* C25: for a slotframe descriptor with link count L whose buffer holds its
\* 4 + 5 * L bytes, link_descriptors() yields exactly L link descriptors
\* and then None, the i-th starting at offset 4 + 5 * i of the descriptor
\* (i from 0); with L = 0 it yields none.
C25_YieldsLinkCount ==
    (/\ it_kind \in {"slotframe", "link"}
     /\ ie_stream.descriptor # None
     /\ Len(ie_stream.descriptor.val.data)
            >= 4 + 5 * ie_stream.descriptor.val.data[4]) =>
        LET descriptor == ie_stream.descriptor.val.data
            L == descriptor[4]
        IN  /\ ie_call.ret # PANIC
            /\ it_kind = "link"
            /\ Len(it_yielded) <= L
            /\ \A i \in 1..Len(it_yielded) :
                   /\ 4 + it_yielded[i].offset = 4 + 5 * (i - 1)
                   /\ it_yielded[i].data
                          = SubSeq(descriptor, 4 + 5 * (i - 1) + 1, 4 + 5 * L)
            /\ (ie_call.op = "next" /\ ie_call.ret = None) => Len(it_yielded) = L

\* the same for a descriptor that has at least one link
C25_YieldsLinkCountFromOne ==
    (/\ it_kind \in {"slotframe", "link"}
     /\ ie_stream.descriptor # None
     /\ ie_stream.descriptor.val.data[4] >= 1
     /\ Len(ie_stream.descriptor.val.data)
            >= 4 + 5 * ie_stream.descriptor.val.data[4]) =>
        LET descriptor == ie_stream.descriptor.val.data
            L == descriptor[4]
        IN  /\ ie_call.ret # PANIC
            /\ it_kind = "link"
            /\ Len(it_yielded) <= L
            /\ \A i \in 1..Len(it_yielded) : it_yielded[i].offset = 5 * (i - 1)
            /\ (ie_call.op = "next" /\ ie_call.ret = None) => Len(it_yielded) = L

\* the least number of bytes an item of each iterator takes
MinItemLen ==
    [nested |-> 2, slotframe |-> 4, link |-> 5]

\* C27: for each of the three iterators over any finite buffer, a next()
\* that returns an item moves the cursor forward by at least 2, 4 and 5
\* bytes respectively, the calls go on until one returns None, and after a
\* None every later call returns None.
C27_NextEndsInNone ==
    (it_kind \in {"nested", "slotframe", "link"} /\ ie_call.op = "next") =>
        /\ ie_call.ret # PANIC
        /\ ie_call.ret # None
               => it_offset >= ie_call.before.offset + MinItemLen[it_kind]
        /\ ie_call.before.ret = None => (ie_call.ret = None /\ it_terminated)

\* the parts of C27 about the cursor and about the calls after a None
C27_ProgressAndStickyNone ==
    (it_kind \in {"nested", "slotframe", "link"} /\ ie_call.op = "next") =>
        /\ ie_call.ret \notin {None, PANIC}
               => it_offset >= ie_call.before.offset + MinItemLen[it_kind]
        /\ ie_call.before.ret = None => (ie_call.ret = None /\ it_terminated)
        /\ ie_call.before.terminated => ie_call.ret = None
====
